---- MODULE Spec2Model ----
(***************************************************************************)
(* A model of the diagnostic protocol core of alliswell_can-uds:           *)
(*   - the ISO-TP channel        (src/isotp_protocol.py, ISOTPProtocol)    *)
(*   - the UDS session engine    (src/uds_session_manager.py)              *)
(*   - the monitor pipeline      (src/monitor_manager.py)                  *)
(*   - the command executor      (src/core/command_project_manager.py)     *)
(*                                                                         *)
(* Each subsystem has its own specification over the shared variables:     *)
(*   SpecLoop  two ISO-TP channels wired back to back (loopback pair)      *)
(*   SpecIso   one ISO-TP channel, its peer played by the environment      *)
(*   SpecUds   one UDS session on top of ISO-TP channel "A"                *)
(*   SpecMon   the monitor manager with its two consumer threads           *)
(*   SpecExec  the command executor with its control and periodic threads  *)
(*                                                                         *)
(* Wall-clock values (time.time() stamps) are not modelled; a timer is     *)
(* the fact that its thread is armed, and its expiry is an action.         *)
(***************************************************************************)
EXTENDS Integers, Sequences, FiniteSets, TLC

VARIABLES
    chan,        \* ISO-TP: channel id -> the fields of one ISOTPProtocol
    uds,         \* UDS: the fields of one UDSSessionManager
    req,         \* UDS: request id -> the position of one send_request call
    mgr,         \* UDS: the UDSManager, its ISOTPManager and their sessions
    mon,         \* monitor: the fields of one MonitorManager
    exe,         \* executor: the fields of one CommandExecutor
    cmds,        \* executor: command id -> the mutable fields of one Command
    thr,         \* executor: thread id -> one thread of the executor
    walk         \* executor: one uncancelled run of _execute_project

vars == <<chan, uds, req, mgr, mon, exe, cmds, thr, walk>>

(***************************************************************************)
(* Bounds of the model.                                                    *)
(***************************************************************************)
MaxMsgLen == 9       \* longest message handed to send_data
MaxSends == 2        \* send_data calls accepted per channel in one run
MaxEnvFrames == 3    \* frames the environment feeds to a channel in SpecIso
TxQueueMax == 2      \* capacity of tx_queue in SpecIsoFull (maxsize, 1000 in __init__)

(***************************************************************************)
(* Python helpers: slices, bit operations on bytes.                        *)
(***************************************************************************)
Min(a, b) == IF a <= b THEN a ELSE b

\* s[a:b] of Python, a and b 0-based, clipped to the sequence
Slice(s, a, b) == SubSeq(s, Min(a, Len(s)) + 1, Min(b, Len(s)))

\* s[a:] of Python
SliceFrom(s, a) == SubSeq(s, Min(a, Len(s)) + 1, Len(s))

\* bytes([v] * n)
Repeat(v, n) == [i \in 1..n |-> v]

\* (hi << 8) | lo for bytes hi, lo
Word(hi, lo) == hi * 256 + lo

(***************************************************************************)
(* ISO-TP: frame types, flow status, configuration.                        *)
(***************************************************************************)
SINGLE_FRAME == 0

FIRST_FRAME == 1

CONSECUTIVE_FRAME == 2

FLOW_CONTROL_FRAME == 3

FS_CONTINUE == 0

FS_WAIT == 1

FS_OVERFLOW == 2

\* ISOTPConfig with the defaults of the source; ids, block size, FD and
\* max_frame_size are the fields the model varies.
ISOTPConfig(rx, tx, bs, fd) ==
    [rx_id |-> rx, tx_id |-> tx, st_min |-> 0, block_size |-> bs,
     can_fd_enabled |-> fd, max_frame_size |-> 4095,
     tx_padding |-> TRUE, tx_padding_value |-> 204]

\* An ISOTPFrame (dataclass)
ISOTPFrame(ft, data, sn, fs, bs, st) ==
    [frame_type |-> ft, data |-> data, sequence_number |-> sn,
     flow_status |-> fs, block_size |-> bs, st_min |-> st]

\* decode_frame returning None
NoFrame == ISOTPFrame(-1, <<>>, 0, 0, 0, 0)

\* A CANFrame as far as ISO-TP uses it
CANFrame(id, data, fd, dlc) ==
    [arbitration_id |-> id, data |-> data, is_fd |-> fd, dlc |-> dlc]

\* _get_standard_dlc_table / _get_fd_dlc_table: dlc -> length
DlcLength(dlc, is_fd) ==
    IF dlc <= 8 THEN dlc
    ELSE IF ~is_fd THEN 8
    ELSE CASE dlc = 9 -> 12 [] dlc = 10 -> 16 [] dlc = 11 -> 20
           [] dlc = 12 -> 24 [] dlc = 13 -> 32 [] dlc = 14 -> 48
           [] OTHER -> 64

\* _calculate_dlc: the first dlc of the table whose length holds the data,
\* the largest dlc when none does
CalculateDlc(data_length, is_fd) ==
    LET top == IF is_fd THEN 15 ELSE 8
        fit == {d \in 0..top : data_length <= DlcLength(d, is_fd)}
    IN  IF fit = {} THEN top
        ELSE CHOOSE d \in fit : \A e \in fit : d <= e

\* encode_frame raises ISOTPFrameError
EncodeRaises(cfg, f, is_fd) ==
    LET max_payload == IF is_fd THEN 64 ELSE 8
        n == Len(f.data)
    IN  \/ /\ f.frame_type = SINGLE_FRAME
           /\ n > max_payload - 1
           /\ (~is_fd \/ n > 4095)
        \/ /\ f.frame_type = FIRST_FRAME
           /\ (n > cfg.max_frame_size \/ (n > 4095 /\ ~is_fd))
        \/ f.frame_type \notin {SINGLE_FRAME, FIRST_FRAME,
                                CONSECUTIVE_FRAME, FLOW_CONTROL_FRAME}

\* encode_frame before padding: PCI bytes followed by the payload
EncodePci(cfg, f, is_fd) ==
    LET max_payload == IF is_fd THEN 64 ELSE 8
        n == Len(f.data)
    IN  CASE f.frame_type = SINGLE_FRAME ->
               IF n <= max_payload - 1
               THEN <<SINGLE_FRAME * 16 + n>> \o f.data
               ELSE <<SINGLE_FRAME * 16, n \div 256, n % 256>> \o f.data
          [] f.frame_type = FIRST_FRAME ->
               \* the length written is len(isotp_frame.data): the slice
               IF n <= 4095
               THEN <<FIRST_FRAME * 16 + (n \div 256), n % 256>> \o f.data
               ELSE <<FIRST_FRAME * 16, (n \div 256) % 256, n % 256>> \o f.data
          [] f.frame_type = CONSECUTIVE_FRAME ->
               <<CONSECUTIVE_FRAME * 16 + (f.sequence_number % 16)>> \o f.data
          [] OTHER ->
               <<FLOW_CONTROL_FRAME * 16 + f.flow_status, f.block_size, f.st_min>>

\* encode_frame: (CAN data, DLC) as a CANFrame on tx_id
encode_frame(cfg, f, is_fd) ==
    LET max_payload == IF is_fd THEN 64 ELSE 8
        raw == EncodePci(cfg, f, is_fd)
        frame_data == IF cfg.tx_padding /\ Len(raw) < max_payload
                      THEN raw \o Repeat(cfg.tx_padding_value, max_payload - Len(raw))
                      ELSE raw
    IN  CANFrame(cfg.tx_id, frame_data, is_fd, CalculateDlc(Len(frame_data), is_fd))

\* decode_frame: the ISOTPFrame of CAN data, NoFrame for None
decode_frame(can_data, is_fd) ==
    IF Len(can_data) = 0 THEN NoFrame
    ELSE
    LET pci_byte == can_data[1]
        frame_type == (pci_byte \div 16) % 16
        pci_low == pci_byte % 16
    IN  CASE frame_type = SINGLE_FRAME ->
               IF pci_low = 0
               THEN IF Len(can_data) < 3 THEN NoFrame
                    ELSE ISOTPFrame(SINGLE_FRAME,
                           Slice(can_data, 3, 3 + Word(can_data[2], can_data[3])),
                           0, FS_CONTINUE, 0, 0)
               ELSE ISOTPFrame(SINGLE_FRAME, Slice(can_data, 1, 1 + pci_low),
                               0, FS_CONTINUE, 0, 0)
          [] frame_type = FIRST_FRAME ->
               \* data_length is computed and dropped; only the slice is kept
               IF pci_low = 0
               THEN IF Len(can_data) < 4 THEN NoFrame
                    ELSE ISOTPFrame(FIRST_FRAME, SliceFrom(can_data, 3),
                                    0, FS_CONTINUE, 0, 0)
               ELSE IF Len(can_data) < 2 THEN NoFrame   \* IndexError, caught
                    ELSE ISOTPFrame(FIRST_FRAME, SliceFrom(can_data, 2),
                                    0, FS_CONTINUE, 0, 0)
          [] frame_type = CONSECUTIVE_FRAME ->
               ISOTPFrame(CONSECUTIVE_FRAME, SliceFrom(can_data, 1),
                          pci_low, FS_CONTINUE, 0, 0)
          [] frame_type = FLOW_CONTROL_FRAME ->
               IF Len(can_data) < 3 THEN NoFrame
               ELSE IF pci_low > 2 THEN NoFrame   \* ISOTPFlowStatus(): ValueError
               ELSE ISOTPFrame(FLOW_CONTROL_FRAME, <<>>, 0, pci_low,
                               can_data[2], can_data[3])
          [] OTHER -> NoFrame

(***************************************************************************)
(* ISO-TP: one ISOTPProtocol.  The fields keep the names of the source.    *)
(* Added for observation: tx_msg_no (accepted send_data calls so far),     *)
(* done_calls (invocations of on_transmission_complete), error_calls       *)
(* (invocations of on_error, an observer being registered), timer_timeout  *)
(* (the timeout the armed timer thread was started with), sent (the        *)
(* messages the loopback harness had accepted), rx_frame_count (frames     *)
(* the environment has fed to process_can_frame) and with_callback (the    *)
(* numbers of the messages accepted with a completion callback) and        *)
(* refused (the refusals send_data has returned False with) and resets     *)
(* (reset() calls counted by SpecIsoLimit), and handling (the Consecutive  *)
(* Frame whose handler has tested the state and not yet run further; only  *)
(* SpecIsoRace runs the handler in two steps).                             *)
(* on_transmission_complete is 0 for None, else the number of the message  *)
(* whose send_data call registered the callback.                           *)
(***************************************************************************)
ISOTPProtocolInit(cfg) ==
    [config |-> cfg,
     state |-> "idle",
     tx_buffer |-> <<>>, tx_sequence |-> 0, tx_total_length |-> 0,
     tx_remaining |-> 0, tx_next_frame_index |-> 0, tx_block_counter |-> 0,
     rx_buffer |-> <<>>, rx_expected_length |-> 0, rx_sequence |-> 0,
     rx_next_sequence |-> 1, rx_block_counter |-> 0,
     rx_flow_status |-> FS_CONTINUE, rx_flow_st_min |-> 0,
     rx_flow_block_size |-> 0,
     timer_running |-> FALSE, timer_timeout |-> "none",
     on_transmission_complete |-> 0,
     rx_queue |-> <<>>, tx_queue |-> <<>>,
     tx_msg_no |-> 0, done_calls |-> <<>>, error_calls |-> <<>>,
     sent |-> <<>>, rx_frame_count |-> 0, with_callback |-> {},
     refused |-> {}, resets |-> 0, handling |-> NoFrame, putting |-> <<>>]

\* start_timer: a running timer is stopped, then a new timer thread is armed
start_timer(c, timeout) ==
    [c EXCEPT !.timer_running = TRUE, !.timer_timeout = timeout]

\* stop_timer
stop_timer(c) ==
    [c EXCEPT !.timer_running = FALSE, !.timer_timeout = "none"]

\* the assignments of reset() before its call of stop_timer()
ResetFields(c) ==
    [c EXCEPT !.state = "idle",
              !.tx_buffer = <<>>, !.tx_sequence = 0, !.tx_total_length = 0,
              !.tx_remaining = 0, !.tx_next_frame_index = 0,
              !.tx_block_counter = 0,
              !.rx_buffer = <<>>, !.rx_expected_length = 0, !.rx_sequence = 0,
              !.rx_next_sequence = 1, !.rx_block_counter = 0,
              !.rx_flow_status = FS_CONTINUE, !.rx_flow_st_min = 0,
              !.rx_flow_block_size = 0]

\* reset() called from a thread that is not the timer thread
reset(c) ==
    [stop_timer(ResetFields(c)) EXCEPT !.rx_queue = <<>>]

\* the timeout branch of _timer_thread_func.  It runs reset() on the timer
\* thread itself, so stop_timer's timer_thread.join() is a join of the
\* current thread and raises RuntimeError: the rest of reset() (emptying
\* rx_queue) and the on_error call after it are skipped, and the outer
\* except of _timer_thread_func logs the error.
timer_timeout_branch(c) ==
    stop_timer(ResetFields([c EXCEPT !.state = "timeout"]))

\* the invocation on_transmission_complete(True, data) when one is registered
CallComplete(c, data) ==
    IF c.on_transmission_complete = 0 THEN c
    ELSE [c EXCEPT !.done_calls = Append(@,
            [cb |-> c.on_transmission_complete, msg |-> c.tx_msg_no,
             ok |-> TRUE, data |-> data])]

\* the invocation on_error(text)
CallError(c, text) == [c EXCEPT !.error_calls = Append(@, text)]

\* _send_single_frame
send_single_frame(c, data) ==
    LET f == encode_frame(c.config,
                 ISOTPFrame(SINGLE_FRAME, data, 0, FS_CONTINUE, 0, 0),
                 c.config.can_fd_enabled)
        c1 == [c EXCEPT !.tx_queue = Append(@, f),
                        !.state = "idle",
                        !.tx_buffer = <<>>,
                        !.tx_total_length = 0]
    IN  CallComplete(stop_timer(c1), data)

\* _send_first_frame
send_first_frame(c, data) ==
    LET max_payload == IF c.config.can_fd_enabled THEN 64 ELSE 6
        first_frame_data == Slice(data, 0, max_payload)
        f == encode_frame(c.config,
                 ISOTPFrame(FIRST_FRAME, first_frame_data, 0, FS_CONTINUE, 0, 0),
                 c.config.can_fd_enabled)
    IN  [c EXCEPT !.tx_queue = Append(@, f),
                  !.tx_next_frame_index = Len(first_frame_data),
                  !.tx_remaining = @ - Len(first_frame_data)]

\* the sequence number a Consecutive Frame is given
CfSequenceNumber(c) == c.tx_sequence

\* _send_consecutive_frame
send_consecutive_frame(c) ==
    IF c.tx_remaining <= 0 THEN c
    ELSE
    LET max_payload == IF c.config.can_fd_enabled THEN 64 ELSE 7
        start == c.tx_next_frame_index
        end == Min(start + max_payload, c.tx_total_length)
        frame_data == Slice(c.tx_buffer, start, end)
        f == encode_frame(c.config,
                 ISOTPFrame(CONSECUTIVE_FRAME, frame_data, CfSequenceNumber(c),
                            FS_CONTINUE, 0, 0),
                 c.config.can_fd_enabled)
        c1 == [c EXCEPT !.tx_queue = Append(@, f),
                        !.tx_next_frame_index = end,
                        !.tx_remaining = @ - Len(frame_data),
                        !.tx_sequence = (@ + 1) % 16,
                        !.tx_block_counter = @ + 1]
    IN  IF c1.tx_remaining <= 0
        THEN \* the buffer is cleared before it is handed to the callback
             CallComplete(stop_timer([c1 EXCEPT !.state = "idle",
                                                !.tx_buffer = <<>>,
                                                !.tx_total_length = 0]),
                          <<>>)
        ELSE c1

\* _send_flow_control_frame
send_flow_control_frame(c, status, block_size, st_min) ==
    [c EXCEPT !.tx_queue = Append(@,
        encode_frame(c.config,
            ISOTPFrame(FLOW_CONTROL_FRAME, <<>>, 0, status, block_size, st_min),
            c.config.can_fd_enabled))]

\* a send_data that tests only the length and not the state (a variant that
\* the refusal property must tell apart from send_data_accepts)
send_data_accepts_any_state(c, data) == Len(data) <= c.config.max_frame_size

\* send_data returns True
send_data_accepts(c, data) ==
    /\ c.state = "idle"
    /\ Len(data) <= c.config.max_frame_size

\* the branch send_data returns False on: "busy" for a channel that is not
\* idle, "too_large" for data longer than max_frame_size, "none" otherwise
send_data_refusal(c, data) ==
    IF c.state # "idle" THEN "busy"
    ELSE IF Len(data) > c.config.max_frame_size THEN "too_large"
    ELSE "none"

\* the callback send_data leaves registered: a None callback keeps the old one
RegisterCallback(old, callback) == IF callback # 0 THEN callback ELSE old

\* send_data(data, callback); callback 0 is None
send_data(c, data, callback) ==
    IF ~send_data_accepts(c, data) THEN c
    ELSE
    LET c1 == [c EXCEPT !.tx_buffer = data,
                        !.tx_total_length = Len(data),
                        !.tx_remaining = Len(data),
                        !.tx_sequence = 0,
                        !.tx_next_frame_index = 0,
                        !.tx_block_counter = 0,
                        !.tx_msg_no = @ + 1,
                        !.with_callback = IF callback # 0 THEN @ \cup {callback} ELSE @,
                        !.on_transmission_complete = RegisterCallback(@, callback)]
        max_payload == IF c.config.can_fd_enabled THEN 64 ELSE 7
        c2 == IF Len(data) <= max_payload
              THEN send_single_frame([c1 EXCEPT !.state = "transmitting"], data)
              ELSE send_first_frame([c1 EXCEPT !.state = "waiting_fc"], data)
    IN  start_timer(c2, "p2_timeout")

\* _process_single_frame
process_single_frame(c, f) == [c EXCEPT !.rx_queue = Append(@, f.data)]

\* _process_first_frame: the total length is read from the first two bytes
\* of the decoded slice, the rest of the slice starts the buffer
process_first_frame(c, f) ==
    IF c.state # "idle" THEN c
    ELSE IF Len(f.data) < 2 THEN c
    ELSE
    LET c1 == [c EXCEPT !.rx_expected_length = Word(f.data[1], f.data[2]),
                        !.rx_buffer = SliceFrom(f.data, 2),
                        !.state = "receiving",
                        !.rx_sequence = 0,
                        !.rx_next_sequence = 1,
                        !.rx_block_counter = 0]
    IN  start_timer(send_flow_control_frame(c1, FS_CONTINUE,
                        c.config.block_size, c.config.st_min),
                    "p4_timeout")

\* _process_consecutive_frame after its test of the state: the sequence
\* check, the buffer update and the completion
consecutive_frame_body(c, f) ==
    IF f.sequence_number # c.rx_next_sequence % 16
    THEN [c EXCEPT !.state = "error"]
    ELSE
    LET c1 == [c EXCEPT !.rx_buffer = @ \o f.data,
                        !.rx_sequence = f.sequence_number,
                        !.rx_next_sequence = (@ + 1) % 16,
                        !.rx_block_counter = @ + 1]
    IN  IF Len(c1.rx_buffer) >= c1.rx_expected_length
        THEN stop_timer([c1 EXCEPT
                 !.rx_queue = Append(@, Slice(c1.rx_buffer, 0, c1.rx_expected_length)),
                 !.state = "idle",
                 !.rx_buffer = <<>>,
                 !.rx_expected_length = 0])
        ELSE IF c1.rx_block_counter >= c1.rx_flow_block_size
                /\ c1.rx_flow_block_size > 0
        THEN [send_flow_control_frame(c1, FS_CONTINUE,
                  c.config.block_size, c.config.st_min)
              EXCEPT !.rx_block_counter = 0]
        ELSE c1

\* _process_consecutive_frame
process_consecutive_frame(c, f) ==
    IF c.state # "receiving" THEN c ELSE consecutive_frame_body(c, f)

\* the loop of _process_flow_control_frame: n passes, each sending one
\* Consecutive Frame while data remains
RECURSIVE SendBlock(_, _)
SendBlock(c, n) ==
    IF n = 0 \/ c.tx_remaining <= 0 THEN c
    ELSE SendBlock(send_consecutive_frame(c), n - 1)

\* _process_flow_control_frame
process_flow_control_frame(c, f) ==
    IF c.state # "waiting_fc" THEN c
    ELSE CASE f.flow_status = FS_CONTINUE ->
                LET c1 == [c EXCEPT !.state = "transmitting",
                                    !.rx_flow_block_size = f.block_size,
                                    !.rx_flow_st_min = f.st_min,
                                    !.tx_block_counter = 0]
                IN  start_timer(SendBlock(c1, Min(f.block_size, c1.tx_remaining)),
                                "p2_timeout")
           [] f.flow_status = FS_WAIT ->
                start_timer([c EXCEPT !.state = "waiting_fc"], "p2_extended")
           [] OTHER ->
                CallError([c EXCEPT !.state = "error"], "Flow control overflow")

\* process_can_frame
process_can_frame(c, can_frame) ==
    IF can_frame.arbitration_id # c.config.rx_id THEN c
    ELSE
    LET f == decode_frame(can_frame.data, can_frame.is_fd)
    IN  CASE f.frame_type = SINGLE_FRAME -> process_single_frame(c, f)
          [] f.frame_type = FIRST_FRAME -> process_first_frame(c, f)
          [] f.frame_type = CONSECUTIVE_FRAME -> process_consecutive_frame(c, f)
          [] f.frame_type = FLOW_CONTROL_FRAME -> process_flow_control_frame(c, f)
          [] OTHER -> c

(***************************************************************************)
(* ISO-TP: the inputs of the model.                                        *)
(***************************************************************************)
Chans == {"A", "B"}

\* CAN ids of the tester ("A" sends on 0x7E0, listens on 0x7E8) and its peer
TesterTxId == 2016

TesterRxId == 2024

\* configured block sizes the model runs with
CfgBlockSizes == {0, 2}

\* a message of length n whose bytes are seed+1, seed+2, ...
Message(n, seed) == [i \in 1..n |-> (seed + i) % 256]

Seeds == {0, 33}

Messages == {Message(n, s) : n \in 0..MaxMsgLen, s \in Seeds}

\* frames a peer that follows ISO 15765-2 puts on the tester's rx id:
\* flow control (continue with block size 0, 1, 2; wait; overflow), a single
\* frame, first frames of 10 and 20 bytes (the third with payload 01 00 02
\* 04 05 06), consecutive frames
PeerFrames ==
    {[arbitration_id |-> TesterRxId, is_fd |-> FALSE, dlc |-> 8, data |-> d] :
       d \in {<<48, 0, 0, 204, 204, 204, 204, 204>>,
              <<48, 1, 0, 204, 204, 204, 204, 204>>,
              <<48, 2, 0, 204, 204, 204, 204, 204>>,
              <<49, 0, 0, 204, 204, 204, 204, 204>>,
              <<50, 0, 0, 204, 204, 204, 204, 204>>,
              <<3, 98, 241, 144, 204, 204, 204, 204>>,
              <<16, 10, 1, 0, 9, 4, 5, 6>>,
              <<16, 20, 1, 0, 20, 4, 5, 6>>,
              <<16, 10, 1, 0, 2, 4, 5, 6>>,
              <<33, 7, 8, 9, 10, 204, 204, 204>>,
              <<34, 7, 8, 9, 10, 204, 204, 204>>}}

IsoVarsInit(bs) ==
    chan = [p \in Chans |->
              IF p = "A"
              THEN ISOTPProtocolInit(ISOTPConfig(TesterRxId, TesterTxId, bs, FALSE))
              ELSE ISOTPProtocolInit(ISOTPConfig(TesterTxId, TesterRxId, bs, FALSE))]

(***************************************************************************)
(* SpecIso: one channel, "A"; its peer is the environment.                 *)
(***************************************************************************)
OtherThanChan == <<uds, req, mgr, mon, exe, cmds, thr, walk>>

\* send_data(m, callback): the callback, when given, is that of this message
IsoSendData(m, with_cb) ==
    /\ chan["A"].tx_msg_no < MaxSends
    /\ chan' = [chan EXCEPT !["A"] =
                  send_data(@, m, IF with_cb THEN @.tx_msg_no + 1 ELSE 0)]
    /\ UNCHANGED OtherThanChan

\* process_can_frame(f) for a frame of the peer
IsoRecvFrame(f) ==
    /\ chan["A"].rx_frame_count < MaxEnvFrames
    /\ chan' = [chan EXCEPT !["A"] =
                  [process_can_frame(@, f) EXCEPT !.rx_frame_count = @ + 1]]
    /\ UNCHANGED OtherThanChan

\* the timer thread finds the timeout elapsed (_timer_thread_func)
IsoTimerExpire ==
    /\ chan["A"].timer_running
    /\ chan' = [chan EXCEPT !["A"] = timer_timeout_branch(@)]
    /\ UNCHANGED OtherThanChan

\* reset() called by the upper layer
IsoReset ==
    /\ chan' = [chan EXCEPT !["A"] = reset(@)]
    /\ UNCHANGED OtherThanChan

NextIso ==
    \/ \E m \in Messages, with_cb \in BOOLEAN : IsoSendData(m, with_cb)
    \/ \E f \in PeerFrames : IsoRecvFrame(f)
    \/ IsoTimerExpire
    \/ IsoReset

(***************************************************************************)
(* SpecIsoLimit: channel "A" configured with a small max_frame_size, so    *)
(* that send_data meets data it must refuse as too long; every refusal is  *)
(* recorded and the reset() calls are counted.                             *)
(***************************************************************************)
MaxResets == 2       \* reset() calls in one run of SpecIsoLimit

\* the max_frame_size the channel is configured with in SpecIsoLimit
LimitFrameSize == 8

\* messages of 7, 8 and 9 bytes: a single frame, a segmented message, and
\* one byte more than LimitFrameSize
LimitMessages == {Message(n, 0) : n \in 7..MaxMsgLen}

\* send_data(m, callback), its refusals recorded
LimitSendData(m, with_cb) ==
    /\ chan["A"].tx_msg_no < MaxSends
    /\ chan' = [chan EXCEPT !["A"] =
                  IF send_data_accepts(@, m)
                  THEN send_data(@, m, IF with_cb THEN @.tx_msg_no + 1 ELSE 0)
                  ELSE [send_data(@, m, IF with_cb THEN @.tx_msg_no + 1 ELSE 0)
                          EXCEPT !.refused = @ \cup {send_data_refusal(chan["A"], m)}]]
    /\ UNCHANGED OtherThanChan

\* reset() called by the upper layer, counted
LimitReset ==
    /\ chan["A"].resets < MaxResets
    /\ chan' = [chan EXCEPT !["A"] = [reset(@) EXCEPT !.resets = @ + 1]]
    /\ UNCHANGED OtherThanChan

NextIsoLimit ==
    \/ \E m \in LimitMessages, with_cb \in BOOLEAN : LimitSendData(m, with_cb)
    \/ \E f \in PeerFrames : IsoRecvFrame(f)
    \/ IsoTimerExpire
    \/ LimitReset

(***************************************************************************)
(* SpecIsoRace: the threads that enter channel "A".  send_data, reset()    *)
(* and the timeout branch of the timer thread run under self.lock, so each *)
(* is one step.  process_can_frame takes no lock of the channel (the lock  *)
(* ISOTPManager.process_can_frame holds is the manager's, which neither    *)
(* the timer thread nor protocol.send_data takes): the handler of a         *)
(* Consecutive Frame is run in two steps, the test of the state and the    *)
(* rest, and the other threads may run between them.  Frames come from one *)
(* receive thread, one after the other.                                    *)
(***************************************************************************)
\* process_can_frame(f) up to and including the handler's test of the state
RaceRecvBegin(f) ==
    /\ chan["A"].rx_frame_count < MaxEnvFrames
    /\ chan["A"].handling = NoFrame
    /\ LET d == decode_frame(f.data, f.is_fd)
       IN  chan' = [chan EXCEPT !["A"] =
              IF /\ f.arbitration_id = @.config.rx_id
                 /\ d.frame_type = CONSECUTIVE_FRAME
                 /\ @.state = "receiving"
              THEN [@ EXCEPT !.handling = d, !.rx_frame_count = @ + 1]
              ELSE [process_can_frame(@, f) EXCEPT !.rx_frame_count = @ + 1]]
    /\ UNCHANGED OtherThanChan

\* the rest of _process_consecutive_frame
RaceRecvFinish ==
    /\ chan["A"].handling # NoFrame
    /\ chan' = [chan EXCEPT !["A"] =
                  [consecutive_frame_body(@, @.handling) EXCEPT !.handling = NoFrame]]
    /\ UNCHANGED OtherThanChan

NextIsoRace ==
    \/ \E m \in LimitMessages, with_cb \in BOOLEAN : LimitSendData(m, with_cb)
    \/ \E f \in PeerFrames : RaceRecvBegin(f)
    \/ RaceRecvFinish
    \/ IsoTimerExpire
    \/ LimitReset

(***************************************************************************)
(* SpecIsoBlock: "A" sends one segmented message to a peer that follows    *)
(* ISO 15765-2 and answers in time (no timer expires): the peer answers    *)
(* the First Frame, and every block it has granted once the block's last   *)
(* Consecutive Frame is out and data remains, with Flow Control            *)
(* (Continue, BS, STmin), BS and STmin being the block_size and st_min of  *)
(* the configuration of "B".  rx_frame_count counts the peer's answers.    *)
(***************************************************************************)
MaxBlockLen == 24    \* longest message sent in SpecIsoBlock

\* block sizes the peer grants
PeerBlockSizes == 0..3

\* segmented messages: 8 bytes and more
BlockMessages == {Message(n, 0) : n \in 8..MaxBlockLen}

\* the Flow Control (Continue) frame of a peer configured with cfg
PeerFlowControl(cfg) ==
    encode_frame(cfg,
        ISOTPFrame(FLOW_CONTROL_FRAME, <<>>, 0, FS_CONTINUE, cfg.block_size, cfg.st_min),
        cfg.can_fd_enabled)

\* the Flow Control frames the peer owes for what c has emitted: one for the
\* First Frame and one for every block of bs Consecutive Frames after
\* which data remains
AnswersOwed(c, bs) ==
    IF c.tx_queue = <<>> THEN 0
    ELSE IF bs = 0 \/ c.tx_remaining <= 0 THEN 1
    ELSE 1 + ((Len(c.tx_queue) - 1) \div bs)

\* send_data(m, callback) on the idle channel
BlockSendData(m, with_cb) ==
    /\ chan["A"].tx_msg_no = 0
    /\ chan' = [chan EXCEPT !["A"] =
                  [send_data(@, m, IF with_cb THEN 1 ELSE 0) EXCEPT !.sent = Append(@, m)]]
    /\ UNCHANGED OtherThanChan

\* the peer has yet to answer something "A" has emitted
PeerOwesAnswer ==
    /\ chan["A"].tx_remaining > 0
    /\ chan["A"].rx_frame_count < AnswersOwed(chan["A"], chan["B"].config.block_size)

\* the peer's Flow Control frame reaches process_can_frame
BlockPeerAnswer ==
    /\ PeerOwesAnswer
    /\ chan' = [chan EXCEPT !["A"] =
                  [process_can_frame(@, PeerFlowControl(chan["B"].config))
                     EXCEPT !.rx_frame_count = @ + 1]]
    /\ UNCHANGED OtherThanChan

NextIsoBlock ==
    \/ \E m \in BlockMessages, with_cb \in BOOLEAN : BlockSendData(m, with_cb)
    \/ BlockPeerAnswer

(***************************************************************************)
(* SpecIsoFd: channel "A" configured with can_fd_enabled; its peer is the  *)
(* environment.  The messages are those around the limits of the CAN FD    *)
(* Single Frame forms.                                                     *)
(***************************************************************************)
\* message lengths: 7 and 8 (the short form's limit on classic CAN), 16
\* (the first length with a high nibble), 62 to 65 (the limits of a 64 byte
\* frame)
FdLengths == {7, 8, 16, 62, 63, 64, 65}

FdMessages == {Message(n, 0) : n \in FdLengths}

NextIsoFd ==
    \/ \E m \in FdMessages, with_cb \in BOOLEAN : IsoSendData(m, with_cb)
    \/ \E f \in PeerFrames : IsoRecvFrame(f)
    \/ IsoTimerExpire
    \/ IsoReset

(***************************************************************************)
(* SpecIsoFull: channel "A" with a tx_queue of capacity TxQueueMax and a   *)
(* consumer that takes frames from it now and then.  tx_queue.put(frame)   *)
(* is called without block=False or a timeout: on a full queue it waits    *)
(* until a frame is taken.  putting holds the call that waits, <<>> when   *)
(* none does.  The peer sends Single Frames and First Frames.  What other  *)
(* threads call while a call waits is left out.                            *)
(***************************************************************************)
\* send_data up to the tx_queue.put of _send_single_frame or
\* _send_first_frame, the lock held
send_data_until_put(c, data, callback) ==
    [c EXCEPT !.tx_buffer = data,
              !.tx_total_length = Len(data),
              !.tx_remaining = Len(data),
              !.tx_sequence = 0,
              !.tx_next_frame_index = 0,
              !.tx_block_counter = 0,
              !.on_transmission_complete = RegisterCallback(@, callback),
              !.state = IF Len(data) <= (IF c.config.can_fd_enabled THEN 64 ELSE 7)
                        THEN "transmitting" ELSE "waiting_fc",
              !.putting = <<"send_data", data, callback>>]

\* send_data(m, callback) by the upper layer
IsoFullSendData(m, with_cb) ==
    /\ chan["A"].putting = <<>>
    /\ chan["A"].tx_msg_no < MaxSends
    /\ LET c == chan["A"]
           callback == IF with_cb THEN c.tx_msg_no + 1 ELSE 0
       IN  chan' = [chan EXCEPT !["A"] =
                      IF send_data_accepts(c, m) /\ Len(c.tx_queue) >= TxQueueMax
                      THEN send_data_until_put(c, m, callback)
                      ELSE send_data(c, m, callback)]
    /\ UNCHANGED OtherThanChan

\* process_can_frame(f) for a Single Frame or a First Frame of the peer;
\* an accepted First Frame puts a Flow Control frame, after
\* _process_first_frame has assigned the reception state and before it
\* starts the timer
IsoFullRecvFrame(f) ==
    /\ chan["A"].putting = <<>>
    /\ chan["A"].rx_frame_count < MaxEnvFrames
    /\ f.data[1] \div 16 \in {SINGLE_FRAME, FIRST_FRAME}
    /\ LET c == chan["A"]
           done == process_can_frame(c, f)
       IN  chan' = [chan EXCEPT !["A"] =
                      IF Len(done.tx_queue) > TxQueueMax
                      THEN [done EXCEPT !.tx_queue = c.tx_queue,
                                        !.timer_running = c.timer_running,
                                        !.timer_timeout = c.timer_timeout,
                                        !.putting = <<"process_can_frame", f>>]
                      ELSE [done EXCEPT !.rx_frame_count = @ + 1]]
    /\ UNCHANGED OtherThanChan

\* get_tx_queue().get() by the consumer; a put that waited goes through
\* and its call runs to its return
IsoFullGet ==
    /\ chan["A"].tx_queue # <<>>
    /\ LET c == chan["A"]
           room == [c EXCEPT !.tx_queue = Tail(@), !.putting = <<>>,
                             !.state = IF c.putting = <<>> THEN @ ELSE "idle"]
       IN  chan' = [chan EXCEPT !["A"] =
                      IF c.putting = <<>> THEN room
                      ELSE IF c.putting[1] = "send_data"
                      THEN send_data(room, c.putting[2], c.putting[3])
                      ELSE [process_can_frame(room, c.putting[2])
                               EXCEPT !.rx_frame_count = @ + 1]]
    /\ UNCHANGED OtherThanChan

NextIsoFull ==
    \/ \E m \in Messages, with_cb \in BOOLEAN : IsoFullSendData(m, with_cb)
    \/ \E f \in PeerFrames : IsoFullRecvFrame(f)
    \/ IsoFullGet
    \/ chan["A"].putting = <<>> /\ IsoTimerExpire
    \/ chan["A"].putting = <<>> /\ IsoReset

(***************************************************************************)
(* SpecLoop: "A" and "B" wired back to back.  Frames are delivered in      *)
(* order and in time: no timer expires.                                    *)
(***************************************************************************)
\* send_data(m) on "A"
LoopSend(m) ==
    /\ chan["A"].tx_msg_no < MaxSends
    /\ send_data_accepts(chan["A"], m)
    /\ chan' = [chan EXCEPT !["A"] =
                  [send_data(@, m, @.tx_msg_no + 1) EXCEPT !.sent = Append(@, m)]]
    /\ UNCHANGED OtherThanChan

\* the oldest outbound frame of channel p reaches process_can_frame of q
LoopDeliver(p, q) ==
    /\ chan[p].tx_queue # <<>>
    /\ chan' = [chan EXCEPT
                  ![p] = [@ EXCEPT !.tx_queue = Tail(@)],
                  ![q] = process_can_frame(@, Head(chan[p].tx_queue))]
    /\ UNCHANGED OtherThanChan

NextLoop ==
    \/ \E m \in Messages : LoopSend(m)
    \/ LoopDeliver("A", "B")
    \/ LoopDeliver("B", "A")

(***************************************************************************)
(* UDS session engine: one UDSSessionManager on ISO-TP channel "A".        *)
(* uds holds response_callbacks (pairs <<service id, request>>, the        *)
(* request standing for the response_callback closure of its send_request  *)
(* call), response_queue and, for observation, processed: the data and     *)
(* outcome of every _process_response call.  req[r] is one call of         *)
(* send_request on its own thread: pc is its position, response_data and   *)
(* response_received the locals of the call, result what it returned.      *)
(***************************************************************************)
NEGATIVE_RESPONSE == 127

POSITIVE_RESPONSE == 64

RESPONSE_PENDING == 120

\* the values of the enum UDSNegativeResponseCode
KnownNrc ==
    {16, 17, 18, 19, 20, 33, 34, 36, 37, 38, 49, 51, 53, 54, 55,
     112, 113, 114, 115, 120, 126, 127} \cup (129..141) \cup (143..148)

\* None for an optional byte
None == -1

\* UDSRequest
UDSRequest(sid, sub, data, expect) ==
    [service_id |-> sid, subfunction |-> sub, data |-> data,
     expect_response |-> expect]

\* UDSRequest.encode
EncodeRequest(r) ==
    IF r.subfunction # None
    THEN <<r.service_id, r.subfunction>> \o r.data
    ELSE <<r.service_id>> \o r.data

\* UDSResponse; kind is response_code: "positive" or "negative"
UDSResponse(sid, data, kind, nrc) ==
    [service_id |-> sid, data |-> data, response_code |-> kind,
     negative_response_code |-> nrc]

\* send_request returning None
NoResponse == UDSResponse(None, <<>>, "none", None)

\* the first byte of a response that _process_response takes as positive
IsPositiveFirstByte(b) == b = POSITIVE_RESPONSE

\* the classification of _process_response: the UDSResponse built from the
\* data, NoResponse when the data is dropped (empty, invalid format, or
\* UDSNegativeResponseCode(data[2]) raising ValueError)
ClassifyResponse(data) ==
    IF Len(data) < 1 THEN NoResponse
    ELSE IF data[1] = NEGATIVE_RESPONSE /\ Len(data) >= 3
    THEN IF data[3] \in KnownNrc
         THEN UDSResponse(data[2], SliceFrom(data, 3), "negative", data[3])
         ELSE NoResponse
    ELSE IF IsPositiveFirstByte(data[1])
    THEN UDSResponse(data[1] - POSITIVE_RESPONSE, SliceFrom(data, 1), "positive", None)
    ELSE NoResponse

\* the request whose callback is registered for a service id, 0 when none
CallbackFor(cbs, sid) ==
    IF \E p \in cbs : p[1] = sid
    THEN (CHOOSE p \in cbs : p[1] = sid)[2]
    ELSE 0

\* response_callbacks[sid] = callback of request r
RegisterResponseCallback(cbs, sid, r) ==
    {p \in cbs : p[1] # sid} \cup {<<sid, r>>}

\* del response_callbacks[sid] when present
RemoveResponseCallback(cbs, sid) == {p \in cbs : p[1] # sid}

\* UDSSessionInfo(): the field the model follows
UDSSessionInfo == [security_level |-> 0]

UdsRequestIds == {1, 2}

\* requests the model issues: ReadDataByIdentifier F190, TesterPresent with
\* suppress bit (no response expected), WriteDataByIdentifier with 8 bytes
\* of data (more than one CAN frame)
UdsRequests ==
    {UDSRequest(34, None, <<241, 144>>, TRUE),
     UDSRequest(62, 128, <<>>, FALSE),
     UDSRequest(46, None, <<241, 144, 1, 2, 3, 4, 5, 6>>, TRUE)}

\* single frames of the ECU on the tester's rx id: 7F 22 78, 7F 22 31,
\* 7F 22 99 (an NRC outside the catalog), 62 F1 90 41, 40 01, 22 F1
EcuFrames ==
    {[arbitration_id |-> TesterRxId, is_fd |-> FALSE, dlc |-> 8, data |-> d] :
       d \in {<<3, 127, 34, 120, 204, 204, 204, 204>>,
              <<3, 127, 34, 49, 204, 204, 204, 204>>,
              <<3, 127, 34, 153, 204, 204, 204, 204>>,
              <<4, 98, 241, 144, 65, 204, 204, 204>>,
              <<2, 64, 1, 204, 204, 204, 204, 204>>,
              <<2, 34, 241, 204, 204, 204, 204, 204>>}}

\* session ids given to UDSManager.create_session
SessionIds == {"s1", "s2"}

\* a session id before create_session: no UDSSessionManager exists
NoSession ==
    [keep_alive_thread |-> "unset", keep_alive_running |-> FALSE,
     response_thread_running |-> FALSE, tester_presents |-> 0]

\* UDSManager.__init__ and ISOTPManager.__init__: no session, no protocol.
\* raised and removed record the remove_session calls that raised and that
\* returned True.
UDSManagerInit ==
    [sessions |-> {}, protocols |-> {},
     session |-> [id \in SessionIds |-> NoSession],
     raised |-> {}, removed |-> {}]

UdsVarsInit ==
    /\ mgr = UDSManagerInit
    /\ uds = [response_callbacks |-> {}, response_queue |-> <<>>,
              response_thread_running |-> TRUE, processed |-> <<>>,
              session_info |-> UDSSessionInfo, security_seed |-> <<>>,
              security_level |-> None]
    /\ req = [r \in UdsRequestIds |->
                [pc |-> "idle", request |-> UDSRequest(0, None, <<>>, FALSE),
                 response_data |-> <<>>, response_received |-> FALSE,
                 result |-> NoResponse]]

OtherThanUds == <<mgr, mon, exe, cmds, thr, walk>>

\* send_request, start: the request is encoded and, when a response is
\* expected, response_callbacks[service_id] is set to this call's callback
UdsRegister(r, request) ==
    /\ req[r].pc = "idle"
    /\ req' = [req EXCEPT ![r] = [@ EXCEPT !.pc = "send", !.request = request]]
    /\ uds' = IF request.expect_response
              THEN [uds EXCEPT !.response_callbacks =
                       RegisterResponseCallback(@, request.service_id, r)]
              ELSE uds
    /\ UNCHANGED <<chan, OtherThanUds>>

\* the cleanup of the finally clause of send_request
Finally(u, request) ==
    IF request.expect_response
    THEN [u EXCEPT !.response_callbacks =
             RemoveResponseCallback(@, request.service_id)]
    ELSE u

\* send_request, hand-off: isotp_manager.send_data(protocol_id, data, None).
\* A refused send returns None; a request that expects no response returns
\* a positive UDSResponse at once.
UdsSend(r) ==
    /\ req[r].pc = "send"
    /\ LET request == req[r].request
           data == EncodeRequest(request)
           success == send_data_accepts(chan["A"], data)
       IN  /\ chan' = [chan EXCEPT !["A"] = send_data(@, data, 0)]
           /\ IF ~success
              THEN /\ req' = [req EXCEPT ![r] =
                                [@ EXCEPT !.pc = "returned", !.result = NoResponse]]
                   /\ uds' = Finally(uds, request)
              ELSE IF request.expect_response
              THEN /\ req' = [req EXCEPT ![r] = [@ EXCEPT !.pc = "wait"]]
                   /\ uds' = uds
              ELSE /\ req' = [req EXCEPT ![r] =
                                [@ EXCEPT !.pc = "returned",
                                          !.result = UDSResponse(request.service_id,
                                                         <<>>, "positive", None)]]
                   /\ uds' = uds
    /\ UNCHANGED OtherThanUds

\* the response send_request returns once response_received is set
WaitResult(response_data) == response_data[1]

\* send_request, response_received.wait() returns True
UdsWaitDone(r) ==
    /\ req[r].pc = "wait"
    /\ req[r].response_received
    /\ req' = [req EXCEPT ![r] =
                 [@ EXCEPT !.pc = "returned",
                           !.result = WaitResult(req[r].response_data)]]
    /\ uds' = Finally(uds, req[r].request)
    /\ UNCHANGED <<chan, OtherThanUds>>

\* send_request, response_received.wait() times out
UdsWaitTimeout(r) ==
    /\ req[r].pc = "wait"
    /\ ~req[r].response_received
    /\ req' = [req EXCEPT ![r] = [@ EXCEPT !.pc = "returned", !.result = NoResponse]]
    /\ uds' = Finally(uds, req[r].request)
    /\ UNCHANGED <<chan, OtherThanUds>>

\* _response_thread_func: one message taken from the ISO-TP inbound queue
\* and given to _process_response (empty data is skipped)
UdsResponseThread ==
    /\ uds.response_thread_running
    /\ chan["A"].rx_queue # <<>>
    /\ LET data == Head(chan["A"].rx_queue)
           response == ClassifyResponse(data)
           r == CallbackFor(uds.response_callbacks, response.service_id)
           seen == [data |-> data, response |-> response, callback |-> r,
                    callbacks |-> uds.response_callbacks]
       IN  /\ chan' = [chan EXCEPT !["A"] = [@ EXCEPT !.rx_queue = Tail(@)]]
           /\ IF response = NoResponse
              THEN /\ uds' = [uds EXCEPT !.processed = Append(@, [seen EXCEPT !.callback = 0])]
                   /\ req' = req
              ELSE /\ uds' = [uds EXCEPT !.response_queue = Append(@, response),
                                         !.processed = Append(@, seen)]
                   /\ req' = IF r # 0 /\ response.service_id = req[r].request.service_id
                             THEN [req EXCEPT ![r] =
                                     [@ EXCEPT !.response_data = Append(@, response),
                                               !.response_received = TRUE]]
                             ELSE req
    /\ UNCHANGED OtherThanUds

\* a single frame of the ECU reaches process_can_frame of channel "A"
UdsEcuFrame(f) ==
    /\ chan["A"].rx_frame_count < MaxEnvFrames
    /\ chan' = [chan EXCEPT !["A"] =
                  [process_can_frame(@, f) EXCEPT !.rx_frame_count = @ + 1]]
    /\ UNCHANGED <<uds, req, OtherThanUds>>

NextUds ==
    \/ \E r \in UdsRequestIds, request \in UdsRequests : UdsRegister(r, request)
    \/ \E r \in UdsRequestIds : UdsSend(r)
    \/ \E r \in UdsRequestIds : UdsWaitDone(r)
    \/ \E r \in UdsRequestIds : UdsWaitTimeout(r)
    \/ UdsResponseThread
    \/ \E f \in EcuFrames : UdsEcuFrame(f)
    \/ IsoTimerExpire

(***************************************************************************)
(* SpecUdsSess: the service methods of the session manager that the model  *)
(* follows, tester_present and security_access, and send_request called by *)
(* the UI with a request built from its fields.  Every request fits one    *)
(* CAN frame.  uds.security_level is the attribute self.security_level of  *)
(* the manager (None until first assigned), uds.session_info the           *)
(* UDSSessionInfo that get_session_info returns.                           *)
(***************************************************************************)
SECURITY_ACCESS == 39

TESTER_PRESENT == 62

\* the request tester_present(suppress_response) builds
tester_present(suppress_response) ==
    UDSRequest(TESTER_PRESENT, IF suppress_response THEN 128 ELSE 0, <<>>,
               ~suppress_response)

\* requests given to send_request: those of tester_present, and TesterPresent
\* with sub-function 0 and "expect response" unchecked in the UI
SessRequests ==
    {tester_present(TRUE), tester_present(FALSE),
     UDSRequest(TESTER_PRESENT, 0, <<>>, FALSE)}

\* access modes and keys security_access is called with; <<>> is no key
AccessModes == {1, 2}

SecurityKeys == {<<>>, <<1, 2>>}

\* single frames of the ECU: 67 02 (key accepted), 7F 27 35 (invalid key),
\* 7E 00
SessEcuFrames ==
    {[arbitration_id |-> TesterRxId, is_fd |-> FALSE, dlc |-> 8, data |-> d] :
       d \in {<<2, 103, 2, 204, 204, 204, 204, 204>>,
              <<3, 127, 39, 53, 204, 204, 204, 204>>,
              <<2, 126, 0, 204, 204, 204, 204, 204>>}}

\* get_session_info
get_session_info(u) == u.session_info

\* security_access(access_mode, security_key) up to the registration of its
\* request in send_request; an even mode without a key returns None at once
SessSecurityAccess(r, access_mode, security_key) ==
    IF access_mode % 2 = 1
    THEN UdsRegister(r, UDSRequest(SECURITY_ACCESS, access_mode, <<>>, TRUE))
    ELSE IF security_key = <<>>
    THEN /\ req[r].pc = "idle"
         /\ req' = [req EXCEPT ![r] =
                      [@ EXCEPT !.pc = "returned",
                                !.request = UDSRequest(SECURITY_ACCESS, access_mode, <<>>, TRUE),
                                !.result = NoResponse]]
         /\ UNCHANGED <<chan, uds, OtherThanUds>>
    ELSE UdsRegister(r, UDSRequest(SECURITY_ACCESS, access_mode, security_key, TRUE))

\* security_access after send_request has returned response
security_access_result(u, access_mode, response) ==
    IF response # NoResponse /\ response.response_code = "positive"
    THEN IF access_mode % 2 = 1
         THEN [u EXCEPT !.security_seed = response.data]
         ELSE [u EXCEPT !.security_level = access_mode \div 2]
    ELSE u

\* send_request, response_received.wait() returns True; a SecurityAccess
\* request is one of security_access, which then looks at the response
SessWaitDone(r) ==
    /\ req[r].pc = "wait"
    /\ req[r].response_received
    /\ req' = [req EXCEPT ![r] =
                 [@ EXCEPT !.pc = "returned",
                           !.result = WaitResult(req[r].response_data)]]
    /\ uds' = IF req[r].request.service_id = SECURITY_ACCESS
              THEN security_access_result(Finally(uds, req[r].request),
                       req[r].request.subfunction, WaitResult(req[r].response_data))
              ELSE Finally(uds, req[r].request)
    /\ UNCHANGED <<chan, OtherThanUds>>

NextUdsSess ==
    \/ \E r \in UdsRequestIds, request \in SessRequests : UdsRegister(r, request)
    \/ \E r \in UdsRequestIds, access_mode \in AccessModes, security_key \in SecurityKeys :
          SessSecurityAccess(r, access_mode, security_key)
    \/ \E r \in UdsRequestIds : UdsSend(r)
    \/ \E r \in UdsRequestIds : SessWaitDone(r)
    \/ \E r \in UdsRequestIds : UdsWaitTimeout(r)
    \/ UdsResponseThread
    \/ \E f \in SessEcuFrames : UdsEcuFrame(f)

(***************************************************************************)
(* SpecUdsMgr: UDSManager with its sessions.  mgr.sessions and             *)
(* mgr.protocols are the keys of UDSManager.sessions and of                *)
(* ISOTPManager.protocols.  For each session: keep_alive_thread is the     *)
(* attribute _keep_alive_thread ("unset" while keep_alive() has never      *)
(* assigned it, else the thread, "alive" or "dead"), keep_alive_running    *)
(* the flag _keep_alive_running, response_thread_running the flag of the   *)
(* response thread, tester_presents the TesterPresent requests the         *)
(* keep-alive thread has sent.                                             *)
(***************************************************************************)
MaxBeats == 2        \* TesterPresent requests of one keep-alive thread

OtherThanMgr == <<chan, uds, req, mon, exe, cmds, thr, walk>>

\* UDSSessionManager.__init__: the response thread is started
UDSSessionManagerInit == [NoSession EXCEPT !.response_thread_running = TRUE]

\* UDSManager.create_session for an id that has no session
MgrCreateSession(id) ==
    /\ id \notin mgr.sessions
    /\ id \notin mgr.protocols
    /\ mgr' = [mgr EXCEPT !.sessions = @ \cup {id},
                          !.protocols = @ \cup {id},
                          !.session[id] = UDSSessionManagerInit]
    /\ UNCHANGED OtherThanMgr

\* keep_alive(interval)
MgrKeepAlive(id) ==
    /\ id \in mgr.sessions
    /\ mgr.session[id].keep_alive_thread # "alive"
    /\ mgr' = [mgr EXCEPT !.session[id].keep_alive_running = TRUE,
                          !.session[id].keep_alive_thread = "alive"]
    /\ UNCHANGED OtherThanMgr

\* one pass of keep_alive_thread: the flag is tested, then TesterPresent is
\* sent and the thread sleeps, or the thread ends
MgrKeepAliveLoop(id) ==
    /\ mgr.session[id].keep_alive_thread = "alive"
    /\ IF mgr.session[id].keep_alive_running
       THEN /\ mgr.session[id].tester_presents < MaxBeats
            /\ mgr' = [mgr EXCEPT !.session[id].tester_presents = @ + 1]
       ELSE mgr' = [mgr EXCEPT !.session[id].keep_alive_thread = "dead"]
    /\ UNCHANGED OtherThanMgr

\* stop_keep_alive raises AttributeError: it reads self._keep_alive_thread,
\* which only keep_alive() assigns
stop_keep_alive_raises(s) == s.keep_alive_thread = "unset"

\* stop_keep_alive; joined tells whether the thread ended within the join
\* timeout of 1.0 s (it sleeps interval = 2 s between two tests of the flag)
stop_keep_alive(s, joined) ==
    IF stop_keep_alive_raises(s) THEN [s EXCEPT !.keep_alive_running = FALSE]
    ELSE [s EXCEPT !.keep_alive_running = FALSE,
                   !.keep_alive_thread =
                       IF @ = "alive" /\ joined THEN "dead" ELSE @]

\* stop_response_thread: the thread tests the flag every 0.1 s and is joined
stop_response_thread(s) == [s EXCEPT !.response_thread_running = FALSE]

\* UDSSessionManager.close, when stop_keep_alive does not raise
close(s, joined) == stop_response_thread(stop_keep_alive(s, joined))

\* UDSManager.remove_session(id) on an existing session.  An exception of
\* session.close() leaves the with block before del self.sessions[id] and
\* before isotp_manager.remove_protocol(id).
MgrRemoveSession(id) ==
    /\ id \in mgr.sessions
    /\ \E joined \in BOOLEAN :
         mgr' = IF stop_keep_alive_raises(mgr.session[id])
                THEN [mgr EXCEPT !.session[id] = stop_keep_alive(@, joined),
                                 !.raised = @ \cup {id}]
                ELSE [mgr EXCEPT !.session[id] = close(@, joined),
                                 !.sessions = @ \ {id},
                                 !.protocols = @ \ {id},
                                 !.removed = @ \cup {id}]
    /\ UNCHANGED OtherThanMgr

NextUdsMgr ==
    \/ \E id \in SessionIds : MgrCreateSession(id)
    \/ \E id \in SessionIds : MgrKeepAlive(id)
    \/ \E id \in SessionIds : MgrKeepAliveLoop(id)
    \/ \E id \in SessionIds : MgrRemoveSession(id)

(***************************************************************************)
(* Monitor pipeline: MonitorManager.  Frames carry a serial number so that *)
(* each can be followed; accepted, evicted, ring_appends and observed      *)
(* record what add_frame, the processing thread and the callback thread    *)
(* did with each serial, ring_dropped how many frames _add_to_buffer has   *)
(* cut off the display buffer.                                             *)
(***************************************************************************)
\* frame_queue maxsize and buffer_max_size, scaled down
MonQueueMax == 2

MonBufferMax == 2

MaxMonFrames == 4

MonIds == {256, 512}

\* MonitorFrame
MonitorFrame(serial, id, direction) ==
    [serial |-> serial, arbitration_id |-> id, direction |-> direction]

\* the filter lists the model starts with: none, or one enabled ID_LIST
\* filter for id 0x100
MonFilterConfigs ==
    {<<>>, <<[filter_type |-> "id_list", enabled |-> TRUE, id_list |-> {256}]>>}

\* MonitorFilter.match
FilterMatch(flt, frame) ==
    IF ~flt.enabled THEN TRUE
    ELSE IF flt.filter_type = "id_list" THEN frame.arbitration_id \in flt.id_list
    ELSE TRUE

\* _apply_filters
apply_filters(m, frame) ==
    \A i \in 1..Len(m.filters) :
        m.filters[i].enabled => FilterMatch(m.filters[i], frame)

\* MonitorStatistics after reset()
StatisticsReset ==
    [total_frames |-> 0, rx_frames |-> 0, tx_frames |-> 0, filtered_frames |-> 0]

\* _update_statistics
update_statistics(st, frame) ==
    [st EXCEPT !.total_frames = @ + 1,
               !.rx_frames = IF frame.direction = "RX" THEN @ + 1 ELSE @,
               !.tx_frames = IF frame.direction = "TX" THEN @ + 1 ELSE @]

\* _add_to_buffer
add_to_buffer(buf, frame) ==
    LET b == Append(buf, frame)
    IN  IF Len(b) > MonBufferMax
        THEN SliceFrom(b, Len(b) - MonBufferMax)
        ELSE b

\* the threads that call add_can_frame: the receive callbacks of two
\* monitored CAN interfaces
MonProducers == {"can0", "can1"}

\* a producer outside add_frame
ProducerIdle == [pc |-> "idle", frame |-> MonitorFrame(0, 0, "RX")]

\* get_statistics: the counts it returns (no frame of the model is an
\* error frame)
get_statistics(m) ==
    [total_frames |-> m.statistics.total_frames,
     rx_frames |-> m.statistics.rx_frames,
     tx_frames |-> m.statistics.tx_frames,
     error_frames |-> 0,
     filtered_frames |-> m.statistics.filtered_frames,
     buffer_size |-> Len(m.display_buffer),
     queue_size |-> Len(m.frame_queue)]

MonVarsInit(fl) ==
        mon = [running |-> FALSE, stop_event |-> FALSE, filters |-> fl,
               frame_queue |-> <<>>, display_buffer |-> <<>>,
               statistics |-> StatisticsReset, on_frame_received |-> TRUE,
               next_serial |-> 1, accepted |-> {}, evicted |-> {},
               ring_appends |-> <<>>, observed |-> <<>>, ring_dropped |-> 0,
               producer |-> [p \in MonProducers |-> ProducerIdle],
               add_raised |-> {}, add_false |-> {}]

OtherThanMon == <<chan, uds, req, mgr, exe, cmds, thr, walk>>

\* start()
MonStart ==
    /\ ~mon.running
    /\ mon' = [mon EXCEPT !.running = TRUE, !.stop_event = FALSE,
                          !.statistics = StatisticsReset]
    /\ UNCHANGED OtherThanMon

\* stop()
MonStop ==
    /\ mon.running
    /\ mon' = [mon EXCEPT !.running = FALSE, !.stop_event = TRUE,
                          !.display_buffer = <<>>]
    /\ UNCHANGED OtherThanMon

\* add_frame: refused when not running; on a full queue the oldest queued
\* frame is dropped to make room
MonAddFrame(id, direction) ==
    /\ mon.next_serial <= MaxMonFrames
    /\ LET frame == MonitorFrame(mon.next_serial, id, direction)
       IN  IF ~mon.running
           THEN mon' = [mon EXCEPT !.next_serial = @ + 1]
           ELSE IF Len(mon.frame_queue) < MonQueueMax
           THEN mon' = [mon EXCEPT !.next_serial = @ + 1,
                                   !.frame_queue = Append(@, frame),
                                   !.accepted = @ \cup {frame}]
           ELSE mon' = [mon EXCEPT !.next_serial = @ + 1,
                                   !.frame_queue = Append(Tail(@), frame),
                                   !.accepted = @ \cup {frame},
                                   !.evicted = @ \cup {Head(mon.frame_queue).serial}]
    /\ UNCHANGED OtherThanMon

\* one pass of the loop of _processing_thread_func that gets a frame
MonProcessingThread ==
    /\ mon.running /\ ~mon.stop_event
    /\ mon.frame_queue # <<>>
    /\ LET frame == Head(mon.frame_queue)
       IN  IF ~apply_filters(mon, frame)
           THEN mon' = [mon EXCEPT !.frame_queue = Tail(@),
                                   !.statistics.filtered_frames = @ + 1]
           ELSE mon' = [mon EXCEPT !.frame_queue = Tail(@),
                                   !.statistics = update_statistics(@, frame),
                                   !.display_buffer = add_to_buffer(@, frame),
                                   !.ring_appends = Append(@, frame.serial),
                                   !.ring_dropped =
                                       @ + Len(mon.display_buffer) + 1
                                         - Len(add_to_buffer(mon.display_buffer, frame))]
    /\ UNCHANGED OtherThanMon

\* one pass of the loop of _callback_thread_func that gets a frame
MonCallbackThread ==
    /\ mon.running /\ ~mon.stop_event
    /\ mon.frame_queue # <<>>
    /\ LET frame == Head(mon.frame_queue)
       IN  IF apply_filters(mon, frame) /\ mon.on_frame_received
           THEN mon' = [mon EXCEPT !.frame_queue = Tail(@),
                                   !.observed = Append(@, frame.serial)]
           ELSE mon' = [mon EXCEPT !.frame_queue = Tail(@)]
    /\ UNCHANGED OtherThanMon

NextMon ==
    \/ MonStart
    \/ MonStop
    \/ \E id \in MonIds, direction \in {"RX", "TX"} : MonAddFrame(id, direction)
    \/ MonProcessingThread
    \/ MonCallbackThread

(***************************************************************************)
(* SpecMonRace: add_frame called by two producer threads while the two     *)
(* consumer threads run.  Each call on frame_queue (put_nowait,            *)
(* get_nowait) is atomic, the queue having its own mutex; add_frame holds  *)
(* no lock across them, so a call that finds the queue full runs in three  *)
(* steps.  mon.producer[p] is the position of producer p in add_frame,     *)
(* add_raised the serials whose add_frame call raised queue.Full and       *)
(* add_false those whose call returned False while the monitor ran.        *)
(***************************************************************************)
\* add_frame up to its first put_nowait
RaceAddFrame(p, id) ==
    /\ mon.producer[p].pc = "idle"
    /\ mon.next_serial <= MaxMonFrames
    /\ LET frame == MonitorFrame(mon.next_serial, id, "RX")
       IN  IF ~mon.running
           THEN mon' = [mon EXCEPT !.next_serial = @ + 1]
           ELSE IF Len(mon.frame_queue) < MonQueueMax
           THEN mon' = [mon EXCEPT !.next_serial = @ + 1,
                                   !.frame_queue = Append(@, frame),
                                   !.accepted = @ \cup {frame}]
           ELSE mon' = [mon EXCEPT !.next_serial = @ + 1,
                                   !.producer[p] = [pc |-> "get", frame |-> frame]]
    /\ UNCHANGED OtherThanMon

\* add_frame, except queue.Full: get_nowait; queue.Empty returns False
RaceAddGet(p) ==
    /\ mon.producer[p].pc = "get"
    /\ IF mon.frame_queue = <<>>
       THEN mon' = [mon EXCEPT !.producer[p] = ProducerIdle,
                               !.add_false = @ \cup {mon.producer[p].frame.serial}]
       ELSE mon' = [mon EXCEPT !.producer[p].pc = "put",
                               !.frame_queue = Tail(@),
                               !.evicted = @ \cup {Head(mon.frame_queue).serial}]
    /\ UNCHANGED OtherThanMon

\* add_frame, except queue.Full: the second put_nowait; its queue.Full is
\* not caught
RaceAddPut(p) ==
    /\ mon.producer[p].pc = "put"
    /\ IF Len(mon.frame_queue) < MonQueueMax
       THEN mon' = [mon EXCEPT !.producer[p] = ProducerIdle,
                               !.frame_queue = Append(@, mon.producer[p].frame),
                               !.accepted = @ \cup {mon.producer[p].frame}]
       ELSE mon' = [mon EXCEPT !.producer[p] = ProducerIdle,
                               !.add_raised = @ \cup {mon.producer[p].frame.serial}]
    /\ UNCHANGED OtherThanMon

NextMonRace ==
    \/ MonStart
    \/ \E p \in MonProducers, id \in MonIds : RaceAddFrame(p, id)
    \/ \E p \in MonProducers : RaceAddGet(p)
    \/ \E p \in MonProducers : RaceAddPut(p)
    \/ MonProcessingThread
    \/ MonCallbackThread

(***************************************************************************)
(* Command executor: CommandExecutor running one project of one group.     *)
(* exe holds the executor's fields and the position of the thread that     *)
(* calls start_project and stop_project; cmds the statistics of each       *)
(* command; thr the threads the executor has created: a control thread     *)
(* runs _execute_project, a periodic thread _periodic_can_frame_sender.    *)
(* A sleeping thread records the length of its sleep; a join with a        *)
(* timeout gives up only on a thread whose sleep is longer than the        *)
(* timeout.  attempts, stopped and sent_after_stop are for observation,    *)
(* as is periodic_stopped: the threads for which stop_periodic_command     *)
(* has returned True.                                                      *)
(***************************************************************************)
MaxThreads == 4

MaxAttempts == 3

\* start_project calls that start a thread
MaxHookRuns == 2

\* UDS commands the control thread executes in one run of SpecUdsCmd
MaxUdsCommands == 1

\* the timeouts of the joins of stop_project, in ms
PERIODIC_JOIN_TIMEOUT == 1000

CONTROL_JOIN_TIMEOUT == 2000

\* the period of the periodic command and the duration of the Wait command
SleepChoices == {100, 5000}

\* the commands of the group: a periodic CAN frame, a Wait, a single CAN frame
CommandIds == 1..3

Command(c, period, duration) ==
    IF c = 1 THEN [command_type |-> "can_frame", send_mode |-> "periodic",
                   period |-> period, duration |-> 0]
    ELSE IF c = 2 THEN [command_type |-> "wait", send_mode |-> "single",
                        period |-> 1000, duration |-> duration]
    ELSE [command_type |-> "can_frame", send_mode |-> "single",
          period |-> 1000, duration |-> 0]

\* CommandGroup: the commands, repeat_count and repeat_interval
CommandGroup(period, duration) ==
    [commands |-> [c \in CommandIds |-> Command(c, period, duration)],
     repeat_count |-> 2, repeat_interval |-> 1000]

\* a project of three groups for a run without cancellation: a disabled
\* group, a group of three single CAN frame commands (the second disabled)
\* with the given repeat_count and repeat_interval, and a group of one
\* command run once without interval
WalkProject(repeat_count, repeat_interval) ==
    <<[enabled |-> FALSE, commands |-> <<TRUE>>,
       repeat_count |-> 2, repeat_interval |-> 1000],
      [enabled |-> TRUE, commands |-> <<TRUE, FALSE, TRUE>>,
       repeat_count |-> repeat_count, repeat_interval |-> repeat_interval],
      [enabled |-> TRUE, commands |-> <<TRUE>>,
       repeat_count |-> 1, repeat_interval |-> 0]>>

\* the control thread at the start of _execute_project.  group, rep and
\* cmd are its position (group index, repeat_count of _execute_group,
\* command index); log records each executed command and each time.sleep;
\* counts are the execution_count, success_count and fail_count of each
\* command.
WalkInit(repeat_count, repeat_interval) ==
    [project |-> WalkProject(repeat_count, repeat_interval),
     pc |-> "project", group |-> 1, rep |-> 0, cmd |-> 0, log |-> <<>>,
     counts |-> [g \in 1..3 |-> [c \in 1..3 |->
                   [execution_count |-> 0, success_count |-> 0, fail_count |-> 0]]],
     running |-> TRUE]

\* where a sequence of callbacks stands after callback e, from stand s:
\* "start" before on_project_started, "project" inside the project,
\* "group" inside a group, "command" between on_command_started and the
\* command's on_command_completed or on_command_failed, "end" after
\* on_project_completed, "bad" when e may not follow.  prev is the callback
\* before e.
HookStep(s, e, prev) ==
    IF s = "start" /\ e.hook = "project_started" THEN "project"
    ELSE IF s = "project" /\ e.hook = "group_started" THEN "group"
    ELSE IF s = "project" /\ e.hook = "project_completed" THEN "end"
    ELSE IF s = "group" /\ e.hook = "command_started" THEN "command"
    ELSE IF s = "group" /\ e.hook = "group_completed" THEN "project"
    ELSE IF /\ s = "command"
            /\ e.hook \in {"command_completed", "command_failed"}
            /\ e.cmd = prev.cmd
            /\ e.count > prev.count
            /\ e.results > prev.results
         THEN "group"
    ELSE "bad"

\* the callbacks fired for one run, as far as their order depends on them:
\* where the sequence stands, its last callback and the names fired
NoHooks ==
    [order |-> "start", seen |-> {},
     last |-> [hook |-> "none", cmd |-> 0, count |-> 0, results |-> 0]]

\* callback e is fired after the callbacks h
Fire(h, e) ==
    [order |-> HookStep(h.order, e, h.last), seen |-> h.seen \cup {e.hook},
     last |-> e]

NoThread ==
    [kind |-> "none", pc |-> "done", cmd |-> 0, rep |-> 0, tmp |-> 0,
     ok |-> FALSE, sleep_ms |-> 0, hooks |-> NoHooks]

ExecutorInit(period, duration) ==
        /\ exe = [running |-> FALSE, stop_event |-> FALSE,
                  current_project |-> FALSE, execution_thread |-> 0,
                  periodic_threads |-> {}, group |-> CommandGroup(period, duration),
                  caller |-> "idle", join_list |-> <<>>,
                  stopped |-> FALSE, sent_after_stop |-> FALSE,
                  periodic_stopped |-> {}]
        /\ cmds = [c \in CommandIds |->
                     [execution_count |-> 0, success_count |-> 0,
                      fail_count |-> 0, attempts |-> 0]]
        /\ thr = [t \in 1..MaxThreads |-> NoThread]

ExeVarsInit(period, duration) ==
        /\ ExecutorInit(period, duration)
        /\ walk = WalkInit(1, 0)

OtherThanExe == <<chan, uds, req, mgr, mon, walk>>

\* Thread.is_alive()
IsAlive(t) == thr[t].kind # "none" /\ thr[t].pc # "done"

FreeThreads == {t \in 1..MaxThreads : thr[t].kind = "none"}

\* the slot a newly created thread takes
NewThread == CHOOSE t \in FreeThreads : \A u \in FreeThreads : t <= u

\* periodic_threads as a sequence of items, in key order
RECURSIVE Items(_)
Items(pt) ==
    IF pt = {} THEN <<>>
    ELSE LET p == CHOOSE x \in pt : \A y \in pt : x[1] <= y[1]
         IN  <<p>> \o Items(pt \ {p})

\* a frame handed to can_manager.send_frame and put on the bus
RecordSend(e, ok) ==
    IF ok /\ e.stopped THEN [e EXCEPT !.sent_after_stop = TRUE] ELSE e

\* start_project
ExeStartProject ==
    /\ exe.caller = "idle"
    /\ IF exe.running
       THEN UNCHANGED <<exe, thr>>
       ELSE /\ FreeThreads # {}
            /\ exe' = [exe EXCEPT !.current_project = TRUE, !.running = TRUE,
                                  !.stop_event = FALSE, !.stopped = FALSE,
                                  !.execution_thread = NewThread]
            /\ thr' = [thr EXCEPT ![NewThread] =
                         [NoThread EXCEPT !.kind = "control", !.pc = "c_start"]]
    /\ UNCHANGED <<cmds, OtherThanExe>>

\* stop_project, up to the first join
ExeStopBegin ==
    /\ exe.caller = "idle"
    /\ exe.running
    /\ exe' = [exe EXCEPT !.running = FALSE, !.stop_event = TRUE,
                          !.caller = "join_periodic",
                          !.join_list = Items(exe.periodic_threads)]
    /\ UNCHANGED <<cmds, thr, OtherThanExe>>

\* join(timeout) on thread t returns: the thread has ended, or it sleeps
\* longer than the timeout
JoinReturns(t, timeout) ==
    \/ ~IsAlive(t)
    \/ thr[t].pc \in {"sleep", "group_sleep"} /\ thr[t].sleep_ms > timeout

\* stop_project: one pass of the loop over the periodic threads
ExeStopJoinPeriodic ==
    /\ exe.caller = "join_periodic"
    /\ exe.join_list # <<>>
    /\ JoinReturns(Head(exe.join_list)[2], PERIODIC_JOIN_TIMEOUT)
    /\ exe' = [exe EXCEPT !.join_list = Tail(@),
                          !.periodic_threads =
                              {p \in @ : p[1] # Head(exe.join_list)[1]}]
    /\ UNCHANGED <<cmds, thr, OtherThanExe>>

\* stop_project: the join on the execution thread, the reset of current_*
\* and the return
ExeStopJoinControl ==
    /\ exe.caller = "join_periodic"
    /\ exe.join_list = <<>>
    /\ exe.execution_thread # 0 => JoinReturns(exe.execution_thread, CONTROL_JOIN_TIMEOUT)
    /\ exe' = [exe EXCEPT !.current_project = FALSE, !.caller = "idle",
                          !.stopped = TRUE]
    /\ UNCHANGED <<cmds, thr, OtherThanExe>>

NumCommands == Cardinality(CommandIds)

\* _execute_project, start: the project is read; without one the thread ends
ControlBegin(t) ==
    /\ thr[t].kind = "control" /\ thr[t].pc = "c_start"
    /\ thr' = [thr EXCEPT ![t] =
                 IF exe.current_project
                 THEN [@ EXCEPT !.pc = "c_cmd", !.cmd = 1, !.rep = 0]
                 ELSE [@ EXCEPT !.pc = "done"]]
    /\ UNCHANGED <<exe, cmds, OtherThanExe>>

\* _execute_group: the loop over the commands.  With stop_event set a
\* command is skipped; a CAN frame in single mode is sent; a periodic CAN
\* frame starts a thread that is stored in periodic_threads under the
\* command's id; a Wait command sleeps.
ControlCommand(t) ==
    /\ thr[t].kind = "control" /\ thr[t].pc = "c_cmd"
    /\ thr[t].cmd <= NumCommands
    /\ LET c == thr[t].cmd
           command == exe.group.commands[c]
           counted == [cmds EXCEPT ![c].attempts = @ + 1]
       IN  IF exe.stop_event
           THEN /\ thr' = [thr EXCEPT ![t].cmd = c + 1]
                /\ UNCHANGED <<exe, cmds>>
           ELSE /\ cmds[c].attempts < MaxAttempts
                /\ IF command.command_type = "wait"
                   THEN /\ thr' = [thr EXCEPT ![t] =
                                     [@ EXCEPT !.pc = "sleep", !.ok = TRUE,
                                               !.sleep_ms = command.duration]]
                        /\ exe' = exe
                   ELSE IF command.send_mode = "single"
                   THEN \E ok \in BOOLEAN :
                          /\ thr' = [thr EXCEPT ![t] = [@ EXCEPT !.pc = "ec_read", !.ok = ok]]
                          /\ exe' = RecordSend(exe, ok)
                   ELSE /\ FreeThreads # {}
                        /\ thr' = [thr EXCEPT ![t] = [@ EXCEPT !.pc = "ec_read", !.ok = TRUE],
                                              ![NewThread] =
                                                 [NoThread EXCEPT !.kind = "periodic",
                                                                  !.pc = "p_loop", !.cmd = c]]
                        /\ exe' = [exe EXCEPT !.periodic_threads =
                                      {p \in @ : p[1] # c} \cup {<<c, NewThread>>}]
                /\ cmds' = counted
    /\ UNCHANGED OtherThanExe

\* _periodic_can_frame_sender: the loop test and the send
PeriodicLoop(t) ==
    /\ thr[t].kind = "periodic" /\ thr[t].pc = "p_loop"
    /\ IF exe.running /\ ~exe.stop_event
       THEN /\ cmds[thr[t].cmd].attempts < MaxAttempts
            /\ \E ok \in BOOLEAN :
                 /\ thr' = [thr EXCEPT ![t] = [@ EXCEPT !.pc = "ec_read", !.ok = ok]]
                 /\ exe' = RecordSend(exe, ok)
            /\ cmds' = [cmds EXCEPT ![thr[t].cmd].attempts = @ + 1]
       ELSE /\ thr' = [thr EXCEPT ![t].pc = "done"]
            /\ UNCHANGED <<exe, cmds>>
    /\ UNCHANGED OtherThanExe

\* command.execution_count += 1, the read
ThreadCountRead(t) ==
    /\ thr[t].pc = "ec_read"
    /\ thr' = [thr EXCEPT ![t] =
                 [@ EXCEPT !.pc = "ec_write", !.tmp = cmds[thr[t].cmd].execution_count]]
    /\ UNCHANGED <<exe, cmds, OtherThanExe>>

\* command.execution_count += 1, the write
ThreadCountWrite(t) ==
    /\ thr[t].pc = "ec_write"
    /\ cmds' = [cmds EXCEPT ![thr[t].cmd].execution_count = thr[t].tmp + 1]
    /\ thr' = [thr EXCEPT ![t] = [@ EXCEPT !.pc = "res_read", !.tmp = 0]]
    /\ UNCHANGED <<exe, OtherThanExe>>

\* command.success_count += 1 or command.fail_count += 1, the read
ThreadResultRead(t) ==
    /\ thr[t].pc = "res_read"
    /\ thr' = [thr EXCEPT ![t] =
                 [@ EXCEPT !.pc = "res_write",
                           !.tmp = IF thr[t].ok THEN cmds[thr[t].cmd].success_count
                                   ELSE cmds[thr[t].cmd].fail_count]]
    /\ UNCHANGED <<exe, cmds, OtherThanExe>>

\* the write of success_count or fail_count and what follows it: the
\* control thread goes to the next command, or past the last one when
\* stop_event is set; a periodic thread sleeps for the period
ThreadResultWrite(t) ==
    /\ thr[t].pc = "res_write"
    /\ cmds' = IF thr[t].ok
               THEN [cmds EXCEPT ![thr[t].cmd].success_count = thr[t].tmp + 1]
               ELSE [cmds EXCEPT ![thr[t].cmd].fail_count = thr[t].tmp + 1]
    /\ thr' = [thr EXCEPT ![t] =
                 IF thr[t].kind = "control"
                 THEN [@ EXCEPT !.pc = "c_cmd", !.tmp = 0, !.ok = FALSE,
                                !.cmd = IF exe.stop_event THEN NumCommands + 1 ELSE @ + 1]
                 ELSE [@ EXCEPT !.pc = "sleep", !.tmp = 0, !.ok = FALSE,
                                !.sleep_ms = exe.group.commands[thr[t].cmd].period]]
    /\ UNCHANGED <<exe, OtherThanExe>>

\* time.sleep returns: a Wait command is over, a period has passed, or the
\* wait after the group is over
ThreadWake(t) ==
    /\ thr[t].pc \in {"sleep", "group_sleep"}
    /\ thr' = [thr EXCEPT ![t] =
                 IF thr[t].pc = "group_sleep"
                 THEN [@ EXCEPT !.pc = "c_end", !.sleep_ms = 0]
                 ELSE IF thr[t].kind = "control"
                 THEN [@ EXCEPT !.pc = "ec_read", !.sleep_ms = 0]
                 ELSE [@ EXCEPT !.pc = "p_loop", !.sleep_ms = 0]]
    /\ UNCHANGED <<exe, cmds, OtherThanExe>>

\* _execute_group, after the last command: repeat_count += 1 and the test
\* of the while loop; _execute_project, after the group: the sleep of
\* repeat_interval unless stop_event is set
ControlGroupEnd(t) ==
    /\ thr[t].kind = "control" /\ thr[t].pc = "c_cmd"
    /\ thr[t].cmd > NumCommands
    /\ thr' = [thr EXCEPT ![t] =
                 IF thr[t].rep + 1 < exe.group.repeat_count /\ ~exe.stop_event
                 THEN [@ EXCEPT !.rep = @ + 1, !.cmd = 1]
                 ELSE IF exe.group.repeat_interval > 0 /\ ~exe.stop_event
                 THEN [@ EXCEPT !.pc = "group_sleep", !.cmd = 0,
                                !.sleep_ms = exe.group.repeat_interval]
                 ELSE [@ EXCEPT !.pc = "c_end", !.cmd = 0]]
    /\ UNCHANGED <<exe, cmds, OtherThanExe>>

\* _execute_project, end: self.running = False
ControlFinish(t) ==
    /\ thr[t].kind = "control" /\ thr[t].pc = "c_end"
    /\ exe' = [exe EXCEPT !.running = FALSE]
    /\ thr' = [thr EXCEPT ![t] = [@ EXCEPT !.pc = "done", !.rep = 0]]
    /\ UNCHANGED <<cmds, OtherThanExe>>

(***************************************************************************)
(* SpecPeriodic: a project is started and runs; stop_periodic_command is   *)
(* called by the thread that called start_project; stop_project is not     *)
(* called.                                                                 *)
(***************************************************************************)
\* stop_periodic_command(command_id) for an id in periodic_threads: the
\* entry is popped; True is returned when the thread is alive
ExeStopPeriodicCommand(c) ==
    /\ exe.caller = "idle"
    /\ \E p \in exe.periodic_threads :
         /\ p[1] = c
         /\ exe' = [exe EXCEPT !.periodic_threads = @ \ {p},
                               !.periodic_stopped =
                                   IF IsAlive(p[2]) THEN @ \cup {p[2]} ELSE @]
    /\ UNCHANGED <<cmds, thr, OtherThanExe>>

(***************************************************************************)
(* SpecHooks: the on_* callbacks of the executor.  thr[t].hooks follows    *)
(* the callbacks fired for the run of control thread t: the                *)
(* on_project_started of the start_project call that created it, then the  *)
(* callbacks the thread fires itself.  The periodic command of the group   *)
(* is disabled, the Wait command and the single CAN frame command are      *)
(* enabled.  stop_project and start_project are called at any time, so a   *)
(* control thread that outlives the join of stop_project runs beside the   *)
(* next one.                                                               *)
(***************************************************************************)
\* command.enabled
HookEnabled(c) == c # 1

\* one callback: its name, the command it is given (0: none) and that
\* command's counters at the time of the call
HookEntry(hook, c, cs) ==
    [hook |-> hook, cmd |-> c,
     count |-> IF c = 0 THEN 0 ELSE cs[c].execution_count,
     results |-> IF c = 0 THEN 0 ELSE cs[c].success_count + cs[c].fail_count]

\* the callback fired before the counters of the command are updated
CommandFinishedHookFirst(cs, c, ok) ==
    [cmds |-> [cs EXCEPT ![c].execution_count = @ + 1,
                         ![c].success_count = IF ok THEN @ + 1 ELSE @,
                         ![c].fail_count = IF ok THEN @ ELSE @ + 1],
     hook |-> HookEntry(IF ok THEN "command_completed" ELSE "command_failed", c, cs)]

\* _execute_group, after _execute_command returned: execution_count, then
\* status and success_count with on_command_completed, or status and
\* fail_count with on_command_failed
CommandFinished(cs, c, ok) ==
    LET counted == [cs EXCEPT ![c].execution_count = @ + 1,
                              ![c].success_count = IF ok THEN @ + 1 ELSE @,
                              ![c].fail_count = IF ok THEN @ ELSE @ + 1]
    IN  [cmds |-> counted,
         hook |-> HookEntry(IF ok THEN "command_completed" ELSE "command_failed",
                            c, counted)]

\* start_project: refused while running; else the state is set,
\* on_project_started is called and the execution thread is started
HookStartProject ==
    /\ exe.caller = "idle"
    /\ IF exe.running
       THEN UNCHANGED <<exe, thr>>
       ELSE /\ Cardinality({t \in 1..MaxThreads : thr[t].kind # "none"}) < MaxHookRuns
            /\ exe' = [exe EXCEPT !.current_project = TRUE, !.running = TRUE,
                                  !.stop_event = FALSE, !.stopped = FALSE,
                                  !.execution_thread = NewThread]
            /\ thr' = [thr EXCEPT ![NewThread] =
                         [NoThread EXCEPT !.kind = "control", !.pc = "c_start",
                                          !.hooks = Fire(NoHooks, HookEntry("project_started", 0, cmds))]]
    /\ UNCHANGED <<cmds, OtherThanExe>>

\* _execute_project, start: without a project the thread returns; the
\* group is skipped when stop_event is set, else on_group_started is
\* called and _execute_group begins
HookGroupStart(t) ==
    /\ thr[t].kind = "control" /\ thr[t].pc = "c_start"
    /\ thr' = [thr EXCEPT ![t] =
                 IF ~exe.current_project THEN [@ EXCEPT !.pc = "done"]
                 ELSE IF exe.stop_event THEN [@ EXCEPT !.pc = "h_finish"]
                 ELSE [@ EXCEPT !.pc = "h_repeat", !.rep = 0,
                                !.hooks = Fire(@, HookEntry("group_started", 0, cmds))]]
    /\ UNCHANGED <<exe, cmds, OtherThanExe>>

\* _execute_group: the head of the while loop
HookRepeat(t) ==
    /\ thr[t].kind = "control" /\ thr[t].pc = "h_repeat"
    /\ thr' = [thr EXCEPT ![t] =
                 IF exe.stop_event THEN [@ EXCEPT !.pc = "h_group_end"]
                 ELSE [@ EXCEPT !.pc = "h_cmd", !.cmd = 1]]
    /\ UNCHANGED <<exe, cmds, OtherThanExe>>

\* _execute_group: one command of the for loop.  A disabled command, or
\* any command while stop_event is set, is passed over; else
\* on_command_started is called and _execute_command begins: a Wait
\* sleeps, a single CAN frame is sent with either result
HookCommandStart(t) ==
    /\ thr[t].kind = "control" /\ thr[t].pc = "h_cmd"
    /\ thr[t].cmd <= NumCommands
    /\ LET c == thr[t].cmd
           command == exe.group.commands[c]
           started == Fire(thr[t].hooks, HookEntry("command_started", c, cmds))
       IN  IF ~HookEnabled(c) \/ exe.stop_event
           THEN thr' = [thr EXCEPT ![t].cmd = @ + 1]
           ELSE IF command.command_type = "wait"
           THEN thr' = [thr EXCEPT ![t] =
                          [@ EXCEPT !.pc = "sleep", !.ok = TRUE, !.hooks = started,
                                    !.sleep_ms = command.duration]]
           ELSE \E ok \in BOOLEAN :
                  thr' = [thr EXCEPT ![t] =
                            [@ EXCEPT !.pc = "h_exec", !.ok = ok, !.hooks = started]]
    /\ UNCHANGED <<exe, cmds, OtherThanExe>>

\* _execute_group: _execute_command has returned; the counters and the
\* callback, then the stop_event test that leaves the for loop
HookCommandFinish(t) ==
    /\ thr[t].kind = "control" /\ thr[t].pc \in {"sleep", "h_exec"}
    /\ LET done == CommandFinished(cmds, thr[t].cmd, thr[t].ok)
       IN  /\ cmds' = done.cmds
           /\ thr' = [thr EXCEPT ![t] =
                        [@ EXCEPT !.pc = "h_cmd", !.ok = FALSE, !.sleep_ms = 0,
                                  !.hooks = Fire(@, done.hook),
                                  !.cmd = IF exe.stop_event THEN NumCommands + 1
                                          ELSE @ + 1]]
    /\ UNCHANGED <<exe, OtherThanExe>>

\* _execute_group: the end of one pass over the commands
HookIterationEnd(t) ==
    /\ thr[t].kind = "control" /\ thr[t].pc = "h_cmd"
    /\ thr[t].cmd > NumCommands
    /\ thr' = [thr EXCEPT ![t] =
                 IF thr[t].rep + 1 >= exe.group.repeat_count
                 THEN [@ EXCEPT !.pc = "h_group_end", !.rep = @ + 1, !.cmd = 0]
                 ELSE [@ EXCEPT !.pc = "h_repeat", !.rep = @ + 1, !.cmd = 0]]
    /\ UNCHANGED <<exe, cmds, OtherThanExe>>

\* _execute_project: _execute_group has returned; on_group_completed, the
\* stop_event test and the sleep of repeat_interval
HookGroupEnd(t) ==
    /\ thr[t].kind = "control" /\ thr[t].pc = "h_group_end"
    /\ thr' = [thr EXCEPT ![t] =
                 [@ EXCEPT !.hooks = Fire(@, HookEntry("group_completed", 0, cmds)),
                           !.pc = IF ~exe.stop_event /\ exe.group.repeat_interval > 0
                                  THEN "group_sleep" ELSE "h_finish",
                           !.sleep_ms = IF ~exe.stop_event
                                        THEN exe.group.repeat_interval ELSE 0]]
    /\ UNCHANGED <<exe, cmds, OtherThanExe>>

\* _execute_project: the sleep of repeat_interval ends
HookGroupWake(t) ==
    /\ thr[t].kind = "control" /\ thr[t].pc = "group_sleep"
    /\ thr' = [thr EXCEPT ![t] = [@ EXCEPT !.pc = "h_finish", !.sleep_ms = 0]]
    /\ UNCHANGED <<exe, cmds, OtherThanExe>>

\* _execute_project, end: running is cleared and on_project_completed is
\* called
HookFinish(t) ==
    /\ thr[t].kind = "control" /\ thr[t].pc = "h_finish"
    /\ exe' = [exe EXCEPT !.running = FALSE]
    /\ thr' = [thr EXCEPT ![t] =
                 [@ EXCEPT !.pc = "done",
                           !.hooks = Fire(@, HookEntry("project_completed", 0, cmds))]]
    /\ UNCHANGED <<cmds, OtherThanExe>>

NextHooks ==
    \/ HookStartProject
    \/ ExeStopBegin
    \/ ExeStopJoinControl
    \/ \E t \in 1..MaxThreads : HookGroupStart(t)
    \/ \E t \in 1..MaxThreads : HookRepeat(t)
    \/ \E t \in 1..MaxThreads : HookCommandStart(t)
    \/ \E t \in 1..MaxThreads : HookCommandFinish(t)
    \/ \E t \in 1..MaxThreads : HookIterationEnd(t)
    \/ \E t \in 1..MaxThreads : HookGroupEnd(t)
    \/ \E t \in 1..MaxThreads : HookGroupWake(t)
    \/ \E t \in 1..MaxThreads : HookFinish(t)

(***************************************************************************)
(* SpecUdsCmd: the control thread executes single-shot UDS commands, one   *)
(* at a time: _execute_uds_command calls send_request (request 1 of the    *)
(* session manager) and _execute_group records the result.  Request 2 is   *)
(* a send_request of another caller on the same session manager, a         *)
(* WriteDataByIdentifier of more than one CAN frame, so the ISO-TP channel *)
(* can be busy when the command's request is handed over.                  *)
(***************************************************************************)
\* uds_command.to_uds_request() of command c: ReadDataByIdentifier,
\* TesterPresent with suppress bit (expect_response False),
\* WriteDataByIdentifier
UdsCommandRequest(c) ==
    IF c = 1 THEN UDSRequest(34, None, <<241, 144>>, TRUE)
    ELSE IF c = 2 THEN UDSRequest(62, 128, <<>>, FALSE)
    ELSE UDSRequest(46, None, <<241, 144, 1, 2, 3, 4, 5, 6>>, TRUE)

\* _execute_uds_command, send mode single: the value returned for the
\* response send_request gave
execute_uds_command(request, response) ==
    IF response # NoResponse
    THEN response.response_code = "positive"
    ELSE ~request.expect_response

\* _execute_uds_command calls send_request for command c
ExeUdsCommandBegin(c) ==
    /\ cmds[1].execution_count + cmds[2].execution_count
          + cmds[3].execution_count < MaxUdsCommands
    /\ UdsRegister(1, UdsCommandRequest(c))

\* send_request has returned: _execute_uds_command returns and
\* _execute_group updates the counters of the command
ExeUdsCommandReturn ==
    /\ req[1].pc = "returned"
    /\ LET request == req[1].request
           c == CHOOSE k \in CommandIds : UdsCommandRequest(k) = request
           success == execute_uds_command(request, req[1].result)
       IN  cmds' = CommandFinished(cmds, c, success).cmds
    /\ req' = [req EXCEPT ![1] =
                 [pc |-> "idle", request |-> UDSRequest(0, None, <<>>, FALSE),
                  response_data |-> <<>>, response_received |-> FALSE,
                  result |-> NoResponse]]
    /\ UNCHANGED <<chan, uds, mgr, mon, exe, thr, walk>>

NextUdsCmd ==
    \/ \E c \in CommandIds : ExeUdsCommandBegin(c)
    \/ ExeUdsCommandReturn
    \/ UdsRegister(2, UDSRequest(46, None, <<241, 144, 1, 2, 3, 4, 5, 6>>, TRUE))
    \/ \E r \in UdsRequestIds : UdsSend(r)
    \/ \E r \in UdsRequestIds : UdsWaitDone(r)
    \/ \E r \in UdsRequestIds : UdsWaitTimeout(r)
    \/ UdsResponseThread
    \/ \E f \in EcuFrames : UdsEcuFrame(f)
    \/ IsoTimerExpire

(***************************************************************************)
(* SpecWalk: _execute_project and _execute_group on a project of several   *)
(* groups, stop_event never set.  Commands are single CAN frames.          *)
(***************************************************************************)
OtherThanWalk == <<chan, uds, req, mgr, mon, exe, cmds, thr>>

\* _execute_project: one pass of the loop over the groups (a disabled group
\* is skipped, an enabled one is entered), or the end of the project
WalkGroup ==
    /\ walk.pc = "project"
    /\ walk' =
         IF walk.group > Len(walk.project)
         THEN [walk EXCEPT !.pc = "done", !.running = FALSE]
         ELSE IF ~walk.project[walk.group].enabled
         THEN [walk EXCEPT !.group = @ + 1]
         ELSE [walk EXCEPT !.pc = "group", !.rep = 0, !.cmd = 1]
    /\ UNCHANGED OtherThanWalk

\* _execute_group: one pass of the loop over the commands; a disabled
\* command is skipped, an enabled one executed and counted
WalkCommand ==
    /\ walk.pc = "group"
    /\ walk.cmd <= Len(walk.project[walk.group].commands)
    /\ LET g == walk.group
           c == walk.cmd
       IN  IF ~walk.project[g].commands[c]
           THEN walk' = [walk EXCEPT !.cmd = @ + 1]
           ELSE \E success \in BOOLEAN :
                  walk' = [walk EXCEPT
                     !.cmd = @ + 1,
                     !.log = Append(@, [kind |-> "command", group |-> g,
                                        rep |-> walk.rep, cmd |-> c, ms |-> 0]),
                     !.counts[g][c].execution_count = @ + 1,
                     !.counts[g][c].success_count = IF success THEN @ + 1 ELSE @,
                     !.counts[g][c].fail_count = IF success THEN @ ELSE @ + 1]
    /\ UNCHANGED OtherThanWalk

\* _execute_group after the last command: repeat_count += 1 and the test
\* of the loop; when the group is over, _execute_project sleeps
\* repeat_interval (if positive) and goes to the next group
WalkIterationEnd ==
    /\ walk.pc = "group"
    /\ walk.cmd > Len(walk.project[walk.group].commands)
    /\ LET group == walk.project[walk.group]
       IN  walk' =
             IF walk.rep + 1 < group.repeat_count
             THEN [walk EXCEPT !.rep = @ + 1, !.cmd = 1]
             ELSE [walk EXCEPT
                     !.pc = "project", !.group = @ + 1, !.rep = 0, !.cmd = 0,
                     !.log = IF group.repeat_interval > 0
                             THEN Append(@, [kind |-> "sleep", group |-> walk.group,
                                             rep |-> walk.rep, cmd |-> 0,
                                             ms |-> group.repeat_interval])
                             ELSE @]
    /\ UNCHANGED OtherThanWalk

NextWalk ==
    \/ WalkGroup
    \/ WalkCommand
    \/ WalkIterationEnd

NextExec ==
    \/ ExeStartProject
    \/ ExeStopBegin
    \/ ExeStopJoinPeriodic
    \/ ExeStopJoinControl
    \/ \E t \in 1..MaxThreads : ControlBegin(t)
    \/ \E t \in 1..MaxThreads : ControlCommand(t)
    \/ \E t \in 1..MaxThreads : PeriodicLoop(t)
    \/ \E t \in 1..MaxThreads : ThreadCountRead(t)
    \/ \E t \in 1..MaxThreads : ThreadCountWrite(t)
    \/ \E t \in 1..MaxThreads : ThreadResultRead(t)
    \/ \E t \in 1..MaxThreads : ThreadResultWrite(t)
    \/ \E t \in 1..MaxThreads : ThreadWake(t)
    \/ \E t \in 1..MaxThreads : ControlGroupEnd(t)
    \/ \E t \in 1..MaxThreads : ControlFinish(t)

NextPeriodic ==
    \/ ExeStartProject
    \/ \E c \in CommandIds : ExeStopPeriodicCommand(c)
    \/ \E t \in 1..MaxThreads : ControlBegin(t)
    \/ \E t \in 1..MaxThreads : ControlCommand(t)
    \/ \E t \in 1..MaxThreads : PeriodicLoop(t)
    \/ \E t \in 1..MaxThreads : ThreadCountRead(t)
    \/ \E t \in 1..MaxThreads : ThreadCountWrite(t)
    \/ \E t \in 1..MaxThreads : ThreadResultRead(t)
    \/ \E t \in 1..MaxThreads : ThreadResultWrite(t)
    \/ \E t \in 1..MaxThreads : ThreadWake(t)
    \/ \E t \in 1..MaxThreads : ControlGroupEnd(t)
    \/ \E t \in 1..MaxThreads : ControlFinish(t)

(***************************************************************************)
(* Initial states and specifications.                                      *)
(***************************************************************************)
InitIso ==
    /\ \E bs \in CfgBlockSizes : IsoVarsInit(bs)
    /\ UdsVarsInit /\ MonVarsInit(<<>>) /\ ExeVarsInit(1000, 1000)

SpecIso == InitIso /\ [][NextIso]_vars

InitLoop == InitIso

SpecLoop == InitLoop /\ [][NextLoop]_vars

InitIsoLimit ==
    /\ chan = [p \in Chans |->
                 ISOTPProtocolInit(
                   [ISOTPConfig(IF p = "A" THEN TesterRxId ELSE TesterTxId,
                                IF p = "A" THEN TesterTxId ELSE TesterRxId, 8, FALSE)
                      EXCEPT !.max_frame_size = LimitFrameSize])]
    /\ UdsVarsInit /\ MonVarsInit(<<>>) /\ ExeVarsInit(1000, 1000)

SpecIsoLimit == InitIsoLimit /\ [][NextIsoLimit]_vars

InitIsoRace ==
    /\ IsoVarsInit(8)
    /\ UdsVarsInit /\ MonVarsInit(<<>>) /\ ExeVarsInit(1000, 1000)

SpecIsoRace == InitIsoRace /\ [][NextIsoRace]_vars

InitIsoBlock ==
    /\ \E bs \in PeerBlockSizes :
          chan = [p \in Chans |->
                    IF p = "A"
                    THEN ISOTPProtocolInit(ISOTPConfig(TesterRxId, TesterTxId, 0, FALSE))
                    ELSE ISOTPProtocolInit(ISOTPConfig(TesterTxId, TesterRxId, bs, FALSE))]
    /\ UdsVarsInit /\ MonVarsInit(<<>>) /\ ExeVarsInit(1000, 1000)

SpecIsoBlock == InitIsoBlock /\ [][NextIsoBlock]_vars

InitIsoFd ==
    /\ chan = [p \in Chans |->
                 ISOTPProtocolInit(
                   ISOTPConfig(IF p = "A" THEN TesterRxId ELSE TesterTxId,
                               IF p = "A" THEN TesterTxId ELSE TesterRxId, 0, TRUE))]
    /\ UdsVarsInit /\ MonVarsInit(<<>>) /\ ExeVarsInit(1000, 1000)

SpecIsoFd == InitIsoFd /\ [][NextIsoFd]_vars

SpecIsoFull == InitIso /\ [][NextIsoFull]_vars

InitUds ==
    /\ IsoVarsInit(8)
    /\ UdsVarsInit /\ MonVarsInit(<<>>) /\ ExeVarsInit(1000, 1000)

SpecUds == InitUds /\ [][NextUds]_vars

InitUdsSess == InitUds

SpecUdsSess == InitUdsSess /\ [][NextUdsSess]_vars

InitUdsMgr == InitUds

SpecUdsMgr == InitUdsMgr /\ [][NextUdsMgr]_vars

InitMon ==
    /\ IsoVarsInit(8)
    /\ UdsVarsInit /\ ExeVarsInit(1000, 1000)
    /\ \E fl \in MonFilterConfigs : MonVarsInit(fl)

SpecMon == InitMon /\ [][NextMon]_vars

InitMonRace ==
    /\ IsoVarsInit(8)
    /\ UdsVarsInit /\ ExeVarsInit(1000, 1000)
    /\ MonVarsInit(<<>>)

SpecMonRace == InitMonRace /\ [][NextMonRace]_vars

InitExec ==
    /\ IsoVarsInit(8)
    /\ UdsVarsInit /\ MonVarsInit(<<>>)
    /\ \E period \in SleepChoices, duration \in SleepChoices : ExeVarsInit(period, duration)

SpecExec == InitExec /\ [][NextExec]_vars

InitPeriodic ==
    /\ IsoVarsInit(8)
    /\ UdsVarsInit /\ MonVarsInit(<<>>)
    /\ ExeVarsInit(100, 5000)

SpecPeriodic == InitPeriodic /\ [][NextPeriodic]_vars

InitHooks ==
    /\ IsoVarsInit(8)
    /\ UdsVarsInit /\ MonVarsInit(<<>>)
    /\ \E duration \in SleepChoices : ExeVarsInit(100, duration)

SpecHooks == InitHooks /\ [][NextHooks]_vars

SpecUdsCmd == InitUds /\ [][NextUdsCmd]_vars

\* repeat_count and repeat_interval of the second group
WalkRepeatCounts == 1..3

WalkRepeatIntervals == {0, 1000}

InitWalk ==
    /\ IsoVarsInit(8)
    /\ UdsVarsInit /\ MonVarsInit(<<>>)
    /\ ExecutorInit(1000, 1000)
    /\ \E n \in WalkRepeatCounts, ms \in WalkRepeatIntervals : walk = WalkInit(n, ms)

SpecWalk == InitWalk /\ [][NextWalk]_vars

(***************************************************************************)
(* Claims about the ISO-TP channel.                                        *)
(***************************************************************************)
\* nothing is on the wire between "A" and "B"
LoopQuiescent == chan["A"].tx_queue = <<>> /\ chan["B"].tx_queue = <<>>

\* C1 (as claimed): once every frame of the loopback pair has been
\* delivered, the peer's inbound queue holds exactly the messages that
\* send_data accepted, byte for byte and in order.
C1_LoopbackRoundTrip ==
    LoopQuiescent => chan["B"].rx_queue = chan["A"].sent

\* the outbound frame at position i of channel c is of frame type ft
IsTxFrame(c, i, ft) == c.tx_queue[i].data[1] \div 16 = ft

\* the number of Consecutive Frames among the outbound frames j..i
CfCount(c, j, i) == Cardinality({k \in j..i : IsTxFrame(c, k, CONSECUTIVE_FRAME)})

\* the position of the last First Frame before position i (0 when none)
LastFirstFrame(c, i) ==
    LET ffs == {j \in 1..i : IsTxFrame(c, j, FIRST_FRAME)}
    IN  IF ffs = {} THEN 0 ELSE CHOOSE j \in ffs : \A k \in ffs : k <= j

\* C2 (as claimed): the n-th Consecutive Frame emitted after a First Frame
\* carries sequence number n mod 16, the first one carrying 1.
C2_CfSequenceIsNMod16 ==
    \A i \in 1..Len(chan["A"].tx_queue) :
        IsTxFrame(chan["A"], i, CONSECUTIVE_FRAME) =>
            chan["A"].tx_queue[i].data[1] % 16 =
                CfCount(chan["A"], LastFirstFrame(chan["A"], i) + 1, i) % 16

\* the number of invocations of the completion callback of message k
DoneCount(c, k) == Cardinality({i \in 1..Len(c.done_calls) : c.done_calls[i].cb = k})

\* the transfer of message k of channel c has ended
TransferOver(c, k) == k < c.tx_msg_no \/ c.state = "idle"

\* C3 (as claimed): the completion callback of an accepted message is
\* invoked for that message only, at most once, and exactly once by the time
\* its transfer has ended, whatever frames, timer expiries and resets follow.
C3_CompletionExactlyOnce ==
    /\ \A i \in 1..Len(chan["A"].done_calls) :
          chan["A"].done_calls[i].cb = chan["A"].done_calls[i].msg
    /\ \A k \in chan["A"].with_callback :
          /\ DoneCount(chan["A"], k) <= 1
          /\ TransferOver(chan["A"], k) => DoneCount(chan["A"], k) = 1

\* the classification the protocol gives a response by its first bytes
ClaimedKind(d) ==
    IF Len(d) >= 3 /\ d[1] = 127 THEN "negative"
    ELSE IF Len(d) >= 1 /\ d[1] # 127 /\ (d[1] \div 64) % 2 = 1 THEN "positive"
    ELSE "discard"

ClaimedSid(d) == IF ClaimedKind(d) = "negative" THEN d[2] ELSE d[1] - 64

\* C4 (as claimed): every inbound UDS message is classified by its first
\* bytes: 7F SID NRC is a negative response for SID, any other first byte B
\* with bit 0x40 set is a positive response for service B - 0x40 and is
\* handed to the request waiting on that service id, and anything else is
\* discarded.
C4_ResponseClassification ==
    \A i \in 1..Len(uds.processed) :
        LET p == uds.processed[i]
        IN  IF ClaimedKind(p.data) = "discard"
            THEN p.response = NoResponse
            ELSE /\ p.response.response_code = ClaimedKind(p.data)
                 /\ p.response.service_id = ClaimedSid(p.data)
                 /\ p.callback = CallbackFor(p.callbacks, ClaimedSid(p.data))

\* C5 (as claimed): a response-pending negative response (7F SID 78) is
\* never what send_request returns: the wait is restarted and the first
\* response that is not response-pending is returned.
C5_ResponsePendingNotReturned ==
    \A r \in UdsRequestIds :
        req[r].pc = "returned" => req[r].result.negative_response_code # RESPONSE_PENDING

\* a call of send_request that expects a response and has not returned
Outstanding(r) ==
    req[r].pc \in {"send", "wait"} /\ req[r].request.expect_response

\* C6 (as claimed): at most one request per service id is outstanding: a
\* second request for the same service id is refused as busy and the first
\* request keeps its correlation, the callback registered for its SID.
C6_OneOutstandingPerSid ==
    /\ \A r1, r2 \in UdsRequestIds :
          (r1 # r2 /\ Outstanding(r1) /\ Outstanding(r2))
              => req[r1].request.service_id # req[r2].request.service_id
    /\ \A r \in UdsRequestIds :
          Outstanding(r)
              => CallbackFor(uds.response_callbacks, req[r].request.service_id) = r


\* how often a serial occurs in a log
Occurrences(log, serial) == Cardinality({i \in 1..Len(log) : log[i] = serial})

\* the accepted frames that pass the filters and were not evicted
MonDue ==
    {f \in mon.accepted : f.serial \notin mon.evicted /\ apply_filters(mon, f)}

\* C7 (as claimed): every frame accepted by add_frame that passes the
\* filters and is not evicted is appended to the display buffer exactly
\* once and delivered to the observer exactly once; checked when the queue
\* has been drained.
C7_RingAndObserverExactlyOnce ==
    /\ \A f \in mon.accepted :
          /\ Occurrences(mon.ring_appends, f.serial) <= 1
          /\ Occurrences(mon.observed, f.serial) <= 1
    /\ mon.frame_queue = <<>> =>
          \A f \in MonDue :
              /\ Occurrences(mon.ring_appends, f.serial) = 1
              /\ Occurrences(mon.observed, f.serial) = 1

\* C8 (as claimed): once stop_project has returned on a running project,
\* the control thread and every periodic thread have ended, and no CAN
\* frame is sent until the next start.
C8_StopLeavesNothingRunning ==
    exe.stopped =>
        /\ \A t \in 1..MaxThreads : ~IsAlive(t)
        /\ ~exe.sent_after_stop

ControlThreads == {t \in 1..MaxThreads : thr[t].kind = "control" /\ IsAlive(t)}

\* C9 (as claimed): start_project is refused while a project runs, so at
\* most one control thread executes at any time.
C9_AtMostOneControlThread == Cardinality(ControlThreads) <= 1

\* an attempt on command c whose statistics are not yet all written
InFlight(c) ==
    \E t \in 1..MaxThreads :
        /\ IsAlive(t) /\ thr[t].cmd = c
        /\ thr[t].pc \in {"ec_read", "ec_write", "res_read", "res_write"}
              \/ (thr[t].kind = "control" /\ thr[t].pc = "sleep")

\* C10 (as claimed): the statistics of a command advance once per attempt:
\* with no attempt in flight execution_count equals success_count +
\* fail_count and equals the number of attempts, also when the control
\* thread and a periodic thread update the same command.
C10_CountersMatchAttempts ==
    \A c \in CommandIds :
        ~InFlight(c) =>
            /\ cmds[c].execution_count = cmds[c].success_count + cmds[c].fail_count
            /\ cmds[c].execution_count = cmds[c].attempts

\* send_data is called in a situation the contract refuses: the channel is
\* not idle, or the data is longer than max_frame_size
Rejected(c, m) == c.state # "idle" \/ Len(m) > c.config.max_frame_size

\* C11: a send_data call on a channel that is not idle, or with data longer
\* than max_frame_size, returns False and leaves the channel as it was: no
\* frame is queued, and state, buffers, counters, timer and registered
\* completion callback are unchanged (only the refusal is recorded).
C11_RejectedSendEmitsNothing ==
    [][\A m \in LimitMessages, with_cb \in BOOLEAN :
          (LimitSendData(m, with_cb) /\ Rejected(chan["A"], m))
              => /\ ~send_data_accepts(chan["A"], m)
                 /\ chan'["A"] = [chan["A"] EXCEPT
                                    !.refused = @ \cup {send_data_refusal(chan["A"], m)}]]_vars

\* both refusals have happened, the busy one with a transfer under way and
\* a completion callback registered
C11_Witness ==
    /\ chan["A"].refused = {"busy", "too_large"}
    /\ chan["A"].state = "waiting_fc"
    /\ chan["A"].timer_running
    /\ chan["A"].on_transmission_complete # 0

\* a step in which process_can_frame is given FC(Overflow) while the
\* channel waits for flow control
OverflowStep ==
    \E f \in PeerFrames :
        /\ IsoRecvFrame(f)
        /\ chan["A"].state = "waiting_fc"
        /\ decode_frame(f.data, f.is_fd).frame_type = FLOW_CONTROL_FRAME
        /\ decode_frame(f.data, f.is_fd).flow_status = FS_OVERFLOW

\* C12 (as claimed): FC(Overflow) received in WaitFC aborts the
\* transmission: no Consecutive Frame is emitted, and the completion
\* callback registered for the message is invoked with a failure status.
C12_OverflowAbortsWithCallback ==
    [][OverflowStep =>
          /\ chan'["A"].tx_queue = chan["A"].tx_queue
          /\ chan["A"].tx_msg_no \in chan["A"].with_callback =>
                \E i \in 1..Len(chan'["A"].done_calls) :
                    /\ i > Len(chan["A"].done_calls)
                    /\ chan'["A"].done_calls[i].msg = chan["A"].tx_msg_no
                    /\ ~chan'["A"].done_calls[i].ok]_vars

\* a step in which process_can_frame is given, during reassembly, a
\* Consecutive Frame whose sequence number is not the expected one
MismatchStep ==
    \E f \in PeerFrames :
        /\ IsoRecvFrame(f)
        /\ chan["A"].state = "receiving"
        /\ decode_frame(f.data, f.is_fd).frame_type = CONSECUTIVE_FRAME
        /\ decode_frame(f.data, f.is_fd).sequence_number
              # chan["A"].rx_next_sequence % 16

\* C13 (as claimed): a Consecutive Frame with an unexpected sequence number
\* aborts reassembly: the partial buffer is discarded, nothing is delivered
\* to the inbound queue, and the channel is Idle again so that a later
\* First Frame is accepted.
C13_MismatchAbortsReassembly ==
    [][MismatchStep =>
          /\ chan'["A"].rx_buffer = <<>>
          /\ chan'["A"].rx_queue = chan["A"].rx_queue
          /\ chan'["A"].state = "idle"]_vars

\* C14 (as claimed): while Receiving the reassembly buffer holds at most
\* the total length taken from the First Frame.
C14_RxBufferWithinExpected ==
    chan["A"].state = "receiving"
        => Len(chan["A"].rx_buffer) <= chan["A"].rx_expected_length

\* a step that is a call of reset()
ResetStep == chan'["A"].resets > chan["A"].resets

\* C15 (as claimed): reset() on an idle channel is a no-op: state, buffers,
\* counters, queued inbound messages, queued outbound frames and timer
\* status are the same after the call as before it.
C15_ResetOnIdleIsNoOp ==
    [][(ResetStep /\ chan["A"].state = "idle")
          => chan'["A"] = [chan["A"] EXCEPT !.resets = @ + 1]]_vars

\* an accepted message whose transfer is under way and whose send_data call
\* registered a completion callback
CallbackPending(c) ==
    /\ c.state \in {"waiting_fc", "transmitting"}
    /\ c.tx_msg_no \in c.with_callback

\* C16 (as claimed): reset() in any state leaves the channel Idle with
\* empty tx and rx buffers and no timer running, and a completion callback
\* still pending for an accepted message has been invoked with a failure
\* status.
C16_ResetAbortsBothDirections ==
    [][ResetStep =>
          /\ chan'["A"].state = "idle"
          /\ chan'["A"].tx_buffer = <<>> /\ chan'["A"].rx_buffer = <<>>
          /\ ~chan'["A"].timer_running
          /\ CallbackPending(chan["A"]) =>
                \E i \in 1..Len(chan'["A"].done_calls) :
                    /\ i > Len(chan["A"].done_calls)
                    /\ chan'["A"].done_calls[i].msg = chan["A"].tx_msg_no
                    /\ ~chan'["A"].done_calls[i].ok]_vars

\* a frame is between the two steps of its handler
FrameInHandler == chan["A"].handling # NoFrame

\* the channel without the records of refused send_data calls and of the
\* reset() count
ChannelFields(c) == [c EXCEPT !.refused = {}, !.resets = 0]

\* C17: the entries of a channel exclude one another: while the handler of
\* a received frame is between its steps, no send_data, reset() or timer
\* expiry writes the channel; the next change of the channel is the rest of
\* that handler, run on the state its test saw.
C17_EntriesMutuallyExclusive ==
    [][FrameInHandler =>
          \/ ChannelFields(chan'["A"]) = ChannelFields(chan["A"])
          \/ ChannelFields(chan'["A"]) =
                ChannelFields([consecutive_frame_body(chan["A"], chan["A"].handling)
                                 EXCEPT !.handling = NoFrame])]_vars

(***************************************************************************)
(* Claims about the UDS session engine, continued.                         *)
(***************************************************************************)
\* request r waits for a response to service id sid and is the one the
\* callback registered for sid belongs to
WaitsFor(r, sid) ==
    /\ req[r].pc = "wait"
    /\ ~req[r].response_received
    /\ req[r].request.service_id = sid
    /\ CallbackFor(uds.response_callbacks, sid) = r

\* the response thread processes a message 7F SID NRC, NRC other than 0x78
NegativeStep ==
    /\ UdsResponseThread
    /\ LET data == Head(chan["A"].rx_queue)
       IN  /\ Len(data) = 3
           /\ data[1] = NEGATIVE_RESPONSE
           /\ data[3] \in (0..255) \ {RESPONSE_PENDING}

\* C18: a negative response 7F SID NRC to the outstanding request for SID,
\* NRC any byte other than 0x78 (bytes outside the catalog included), is
\* handed to that request as a negative response carrying NRC, which
\* send_request then returns.
C18_AnyNrcReturnedAsNegative ==
    [][\A r \in UdsRequestIds :
          (NegativeStep /\ WaitsFor(r, Head(chan["A"].rx_queue)[2]))
              => /\ req'[r].response_received
                 /\ Len(req'[r].response_data) = 1
                 /\ WaitResult(req'[r].response_data).response_code = "negative"
                 /\ WaitResult(req'[r].response_data).negative_response_code
                        = Head(chan["A"].rx_queue)[3]]_vars

\* send_request hands request r to ISO-TP, which accepts it
HandOff(r) ==
    /\ UdsSend(r)
    /\ send_data_accepts(chan["A"], EncodeRequest(req[r].request))

\* the payload of the frame last put on the outbound queue of channel "A"
LastFrameData(c) == c.tx_queue[Len(c.tx_queue)].data

\* C19: a request with expect_response = false and a sub-function goes on
\* the wire with bit 7 of the sub-function byte set, and the call returns at
\* the hand-off: it registers no callback, waits for nothing and consumes
\* no response.
C19_NoResponseSetsSuppressBit ==
    [][\A r \in UdsRequestIds :
          (HandOff(r) /\ ~req[r].request.expect_response
                      /\ req[r].request.subfunction # None)
              => /\ LastFrameData(chan'["A"])[2] = req[r].request.service_id
                 /\ LastFrameData(chan'["A"])[3] >= 128
                 /\ req'[r].pc = "returned"
                 /\ req'[r].result.response_code = "positive"
                 /\ uds' = uds
                 /\ chan'["A"].rx_queue = chan["A"].rx_queue]_vars

\* the response thread processes the positive response 67 s to the
\* security_access(s, key) call r, s even
KeyAcceptedStep(r) ==
    /\ UdsResponseThread
    /\ WaitsFor(r, SECURITY_ACCESS)
    /\ req[r].request.subfunction % 2 = 0
    /\ Head(chan["A"].rx_queue) = <<SECURITY_ACCESS + 64, req[r].request.subfunction>>

\* the security_access call r returns
SecurityAccessReturns(r) ==
    /\ req[r].pc # "returned"
    /\ req'[r].pc = "returned"
    /\ req'[r].request.service_id = SECURITY_ACCESS

\* C20: the positive response to security_access(s, key), s even, reaches
\* the call; a call that returns with a positive response leaves
\* get_session_info().security_level = s / 2; a call that returns with a
\* negative response, a timeout or for want of a key leaves it as it was.
C20_SecurityLevelFollowsAccess ==
    [][\A r \in UdsRequestIds :
          /\ KeyAcceptedStep(r)
                => /\ req'[r].response_received
                   /\ WaitResult(req'[r].response_data).response_code = "positive"
          /\ SecurityAccessReturns(r)
                => get_session_info(uds').security_level =
                      IF /\ req'[r].result.response_code = "positive"
                         /\ req'[r].request.subfunction % 2 = 0
                      THEN req'[r].request.subfunction \div 2
                      ELSE get_session_info(uds).security_level]_vars

\* C21: remove_session(id) on an existing session completes, and then
\* neither the session nor the ISO-TP protocol of id is registered and the
\* session's response thread and keep-alive have stopped, whether or not
\* keep-alive was ever started.
C21_RemoveSessionDestroysChannel ==
    [][\A id \in SessionIds :
          MgrRemoveSession(id)
              => /\ id \notin mgr'.raised
                 /\ id \notin mgr'.sessions
                 /\ id \notin mgr'.protocols
                 /\ ~mgr'.session[id].response_thread_running
                 /\ ~mgr'.session[id].keep_alive_running]_vars

(***************************************************************************)
(* Claims about the monitor, continued.                                    *)
(***************************************************************************)
\* the serials of the frames in the display buffer
RingSerials == [i \in 1..Len(mon.display_buffer) |-> mon.display_buffer[i].serial]

\* the last n entries of a log
LastOf(log, n) == SliceFrom(log, Len(log) - n)

\* the display buffer is within its capacity and holds the most recently
\* appended frames in append order
RingHoldsMostRecent ==
    /\ Len(mon.display_buffer) <= MonBufferMax
    /\ RingSerials = LastOf(mon.ring_appends, Len(mon.display_buffer))

\* C22: the ring never holds more than its capacity, it holds the most
\* recently appended frames in append order, and the frames discarded from
\* it are counted: one of the counts of get_statistics is the number of
\* discarded frames.
C22_RingKeepsMostRecentAndCountsDrops ==
    /\ RingHoldsMostRecent
    /\ \E k \in DOMAIN get_statistics(mon) :
          get_statistics(mon)[k] = mon.ring_dropped

\* C23: add_frame never raises, whatever the other producers and the
\* consumers do meanwhile, and a call that finds the queue full drops the
\* oldest queued frame and enqueues the new one: it does not return False.
C23_IngestNeverRaises ==
    /\ mon.add_raised = {}
    /\ mon.add_false = {}

(***************************************************************************)
(* Claims about the executor, continued.                                   *)
(***************************************************************************)
\* the commands of the log, as <<group, cmd>>
RECURSIVE CommandsOf(_)
CommandsOf(log) ==
    IF log = <<>> THEN <<>>
    ELSE IF Head(log).kind = "command"
    THEN <<<<Head(log).group, Head(log).cmd>>>> \o CommandsOf(Tail(log))
    ELSE CommandsOf(Tail(log))

\* the enabled commands of group g in list order, as <<group, cmd>>
RECURSIVE EnabledFrom(_, _, _)
EnabledFrom(project, g, c) ==
    IF c > Len(project[g].commands) THEN <<>>
    ELSE (IF project[g].commands[c] THEN <<<<g, c>>>> ELSE <<>>)
         \o EnabledFrom(project, g, c + 1)

\* n runs of group g
RECURSIVE Runs(_, _, _)
Runs(project, g, n) ==
    IF n = 0 THEN <<>> ELSE EnabledFrom(project, g, 1) \o Runs(project, g, n - 1)

\* what the project executes when it runs to its end: each enabled group
\* repeat_count times
RECURSIVE ProjectRuns(_, _)
ProjectRuns(project, g) ==
    IF g > Len(project) THEN <<>>
    ELSE (IF project[g].enabled THEN Runs(project, g, project[g].repeat_count)
          ELSE <<>>) \o ProjectRuns(project, g + 1)

\* the runs of the project as claimed, without the pause: every enabled
\* group repeat_count times, its enabled commands in list order, and the
\* counters of disabled groups and commands at 0
WalkRunsAsClaimed ==
    /\ walk.pc = "done" => CommandsOf(walk.log) = ProjectRuns(walk.project, 1)
    /\ \A g \in 1..Len(walk.project), c \in 1..3 :
          (~walk.project[g].enabled
             \/ c > Len(walk.project[g].commands)
             \/ ~walk.project[g].commands[c])
              => walk.counts[g][c].execution_count = 0

\* C24: without cancellation an enabled group with repeat_count n > 0 is
\* run exactly n times, each run executing the enabled commands once in
\* list order; disabled groups and commands are never executed and their
\* counters stay 0; and between two successive iterations of a group the
\* control thread sleeps repeat_interval.
C24_GroupRunsNTimesWithPause ==
    /\ WalkRunsAsClaimed
    /\ \A i \in 1..(Len(walk.log) - 1) :
          (/\ walk.log[i].kind = "command" /\ walk.log[i + 1].kind = "command"
           /\ walk.log[i].group = walk.log[i + 1].group
           /\ walk.project[walk.log[i].group].repeat_interval > 0)
              => walk.log[i].rep = walk.log[i + 1].rep

\* a periodic thread that is running (not ended)
PeriodicRunning(t) == thr[t].kind = "periodic" /\ thr[t].pc # "done"

\* stop_project or stop_periodic_command has asked thread t to stop
StopRequested(t) == exe.stop_event \/ t \in exe.periodic_stopped

\* C25: a periodic thread, once started, ends only when it is stopped: the
\* control thread going on to later commands or finishing its walk of the
\* project does not end it.
C25_PeriodicRunsUntilStopped ==
    [][\A t \in 1..MaxThreads :
          (PeriodicRunning(t) /\ thr'[t].pc = "done") => StopRequested(t)]_vars

\* C26: once stop_periodic_command has returned True for a periodic
\* thread, the thread sends nothing further: at its next test of the loop
\* it ends.
C26_StopPeriodicCommandStopsTask ==
    [][\A t \in exe.periodic_stopped :
          thr[t].pc = "p_loop" => thr'[t].pc \in {"p_loop", "done"}]_vars

\* the Consecutive Frames a sender still has to emit for its remaining bytes
CfsStillNeeded(c) ==
    LET max_payload == IF c.config.can_fd_enabled THEN 64 ELSE 7
    IN  (c.tx_remaining + max_payload - 1) \div max_payload

\* f decodes to Flow Control (Continue)
IsFcContinue(f) ==
    LET d == decode_frame(f.data, f.is_fd)
    IN  d.frame_type = FLOW_CONTROL_FRAME /\ d.flow_status = FS_CONTINUE

\* C27: a sender in waiting_fc that is handed FC(Continue, BS, STmin)
\* stores BS and STmin and emits min(BS, Consecutive Frames still needed)
\* Consecutive Frames when BS > 0, and all that are still needed when
\* BS = 0.
C27_FlowControlGrantsBlock ==
    [][\A f \in PeerFrames :
          (chan["A"].state = "waiting_fc" /\ IsFcContinue(f) /\ IsoRecvFrame(f))
             => LET d == decode_frame(f.data, f.is_fd)
                    emitted == Len(chan'["A"].tx_queue) - Len(chan["A"].tx_queue)
                IN  /\ chan'["A"].rx_flow_block_size = d.block_size
                    /\ chan'["A"].rx_flow_st_min = d.st_min
                    /\ \A i \in (Len(chan["A"].tx_queue) + 1)..Len(chan'["A"].tx_queue) :
                           IsTxFrame(chan'["A"], i, CONSECUTIVE_FRAME)
                    /\ emitted = IF d.block_size > 0
                                 THEN Min(d.block_size, CfsStillNeeded(chan["A"]))
                                 ELSE CfsStillNeeded(chan["A"])]_vars

\* a block the peer granted with BS > 0 has just been emitted in full and
\* data remains
BlockExhausted(c) ==
    /\ c.rx_flow_block_size > 0
    /\ c.tx_block_counter = c.rx_flow_block_size
    /\ c.tx_remaining > 0

\* the Consecutive Frame payloads of tx_queue after its First Frame, cut to
\* n bytes
RECURSIVE CfBytes(_, _)
CfBytes(q, i) ==
    IF i > Len(q) THEN <<>> ELSE SubSeq(q[i].data, 2, 8) \o CfBytes(q, i + 1)

\* the bytes channel c has put on the bus for its segmented message
EmittedBytes(c) ==
    IF c.tx_queue = <<>> THEN <<>>
    ELSE SubSeq(c.tx_queue[1].data, 3, 8) \o CfBytes(c.tx_queue, 2)

\* the send has ended well: every byte emitted, success reported to the
\* callback given, channel idle
SendSucceeded(c) ==
    /\ c.state = "idle"
    /\ Len(c.sent) = 1
    /\ SubSeq(EmittedBytes(c), 1, Len(c.sent[1])) = c.sent[1]
    /\ c.with_callback # {} => \E i \in 1..Len(c.done_calls) : c.done_calls[i].ok

\* C28: after the Consecutive Frames of a granted block are out with data
\* remaining the sender is in waiting_fc, so that the next Flow Control
\* (Continue) grants a further block; hence a segmented send whose peer
\* answers the First Frame and every exhausted block with Flow Control
\* (Continue) in time emits all its bytes, reports success and ends idle.
\* In SpecIsoBlock the run goes on exactly as long as the peer owes an
\* answer, so the send ends well in every run if and only if it has ended
\* well in every state where the peer owes none.
C28_BlocksContinueUntilDone ==
    /\ BlockExhausted(chan["A"]) => chan["A"].state = "waiting_fc"
    /\ (chan["A"].tx_msg_no = 1 /\ ~PeerOwesAnswer) => SendSucceeded(chan["A"])

\* f is a First Frame by its PCI
IsFirstFrame(f) == f.data[1] \div 16 = FIRST_FRAME

\* the total length a First Frame announces in its PCI: the low nibble of
\* the first byte and the second byte
AnnouncedLength(f) == Word(f.data[1] % 16, f.data[2])

\* the payload slice a First Frame carries after its two PCI bytes
FirstPayload(f) == SliceFrom(f.data, 2)

\* C29: a receiver in idle that is handed a First Frame takes the length
\* announced in the PCI as the expected total length, starts its buffer
\* with the whole first payload slice, expects sequence number 1, enqueues
\* exactly one Flow Control (Continue, configured block_size, configured
\* st_min), starts the timer and enters receiving.
C29_FirstFrameStartsReception ==
    [][\A f \in PeerFrames :
          (chan["A"].state = "idle" /\ IsFirstFrame(f) /\ IsoRecvFrame(f))
             => /\ chan'["A"].rx_expected_length = AnnouncedLength(f)
                /\ chan'["A"].rx_buffer = FirstPayload(f)
                /\ chan'["A"].rx_next_sequence = 1
                /\ chan'["A"].tx_queue =
                      Append(chan["A"].tx_queue,
                             PeerFlowControl(chan["A"].config))
                /\ chan'["A"].timer_running
                /\ chan'["A"].state = "receiving"]_vars

\* f is the Consecutive Frame receiver c expects next
IsExpectedCf(c, f) ==
    /\ f.data[1] \div 16 = CONSECUTIVE_FRAME
    /\ f.data[1] % 16 = c.rx_next_sequence % 16

\* C30: a receiver in receiving whose configured block_size BS is above 0
\* enqueues a new Flow Control (Continue, BS, st_min) each time BS
\* Consecutive Frames have come in since its last Flow Control and the
\* message is not complete; at any other Consecutive Frame, and at every
\* one when BS = 0, it enqueues none.
C30_ReceiverGrantsNextBlock ==
    [][\A f \in PeerFrames :
          (/\ chan["A"].state = "receiving" /\ IsExpectedCf(chan["A"], f)
           /\ IsoRecvFrame(f))
             => IF /\ chan["A"].config.block_size > 0
                   /\ chan["A"].rx_block_counter + 1 = chan["A"].config.block_size
                   /\ chan'["A"].state = "receiving"
                THEN chan'["A"].tx_queue =
                        Append(chan["A"].tx_queue, PeerFlowControl(chan["A"].config))
                ELSE chan'["A"].tx_queue = chan["A"].tx_queue]_vars

\* the frame channel c enqueued last
LastTxFrame(c) == c.tx_queue[Len(c.tx_queue)]

\* C31: the First Frame emitted for an accepted message of total length L
\* above the Single Frame capacity has first byte 0x10 | (L >> 8) and second
\* byte L & 0xFF: the total length of the message, not that of the slice
\* the frame carries.
C31_FirstFrameCarriesTotalLength ==
    [][\A m \in Messages, with_cb \in BOOLEAN :
          (/\ send_data_accepts(chan["A"], m) /\ Len(m) > 7
           /\ IsoSendData(m, with_cb))
             => /\ Len(chan'["A"].tx_queue) = Len(chan["A"].tx_queue) + 1
                /\ LastTxFrame(chan'["A"]).data[1] = FIRST_FRAME * 16 + (Len(m) \div 256)
                /\ LastTxFrame(chan'["A"]).data[2] = Len(m) % 256]_vars

\* the Single Frame in the long form for message m, before padding
LongSingleFrame(m) == <<0, Len(m)>> \o m

\* the frames of tx_queue that are Single Frames by construction: sent by
\* a send_data that left the channel idle
IsTxSingleFrame(c, c1) ==
    Len(c1.tx_queue) = Len(c.tx_queue) + 1 /\ c1.state = "idle"

\* C32: with CAN FD enabled an accepted message of 8 to 62 bytes is sent
\* as one Single Frame in the long form (first byte 0x00, second byte the
\* length, then the payload); a longer message is segmented, its first
\* frame being a First Frame; and the high nibble of the first byte of
\* every Single Frame emitted is 0.
C32_FdSingleFrameLongForm ==
    [][\A m \in FdMessages, with_cb \in BOOLEAN :
          (send_data_accepts(chan["A"], m) /\ IsoSendData(m, with_cb))
             => LET f == LastTxFrame(chan'["A"])
                IN  /\ (Len(m) >= 8 /\ Len(m) <= 62)
                          => /\ IsTxSingleFrame(chan["A"], chan'["A"])
                             /\ SubSeq(f.data, 1, Len(m) + 2) = LongSingleFrame(m)
                    /\ Len(m) > 62
                          => /\ chan'["A"].state = "waiting_fc"
                             /\ f.data[1] \div 16 = FIRST_FRAME
                    /\ IsTxSingleFrame(chan["A"], chan'["A"])
                          => f.data[1] \div 16 = 0]_vars

\* a transfer is in progress on channel c
TransferInProgress(c) == c.state \in {"waiting_fc", "transmitting", "receiving"}

\* the callback invocations channel c has made
CallbackCount(c) == Len(c.done_calls) + Len(c.error_calls)

\* C33: when the timer expires while a transfer is in progress the
\* transfer is aborted: the channel is idle again with its tx state and its
\* reassembly buffer cleared, and the timeout has been reported to the
\* upper layer by an invocation of the completion or the error callback.
C33_TimeoutAbortsAndReports ==
    [][(TransferInProgress(chan["A"]) /\ IsoTimerExpire)
          => /\ chan'["A"].state = "idle"
             /\ chan'["A"].tx_buffer = <<>> /\ chan'["A"].tx_remaining = 0
             /\ chan'["A"].rx_buffer = <<>> /\ chan'["A"].rx_expected_length = 0
             /\ CallbackCount(chan'["A"]) > CallbackCount(chan["A"])]_vars

\* the frames the statistics account for
CountedFrames(m) == m.statistics.total_frames + m.statistics.filtered_frames

\* C34: every frame a consumer takes from the ingress queue is counted in
\* exactly one of total_frames and filtered_frames; a frame the filters
\* reject increments filtered_frames by one and leaves the ring, the totals
\* and the observer as they were.
C34_EveryTakenFrameCountedOnce ==
    [][(MonProcessingThread \/ MonCallbackThread)
          => LET frame == Head(mon.frame_queue)
             IN  /\ CountedFrames(mon') = CountedFrames(mon) + 1
                 /\ ~apply_filters(mon, frame)
                       => /\ mon'.statistics.filtered_frames =
                                mon.statistics.filtered_frames + 1
                          /\ mon'.statistics.total_frames = mon.statistics.total_frames
                          /\ mon'.display_buffer = mon.display_buffer
                          /\ mon'.observed = mon.observed]_vars

C36_IdleChannelHasNoTimer ==
    (chan["A"].state = "idle" /\ ~TransferInProgress(chan["A"]))
        => ~chan["A"].timer_running

\* C37: the two directions are independent: while a reception is in
\* progress send_data of a message within max_frame_size is accepted (it
\* does not return busy), and while a send is in progress an incoming First
\* Frame starts a reassembly (a buffer is begun and a Flow Control frame is
\* enqueued).
C37_DirectionsIndependent ==
    [][/\ \A m \in Messages, with_cb \in BOOLEAN :
            (/\ chan["A"].state = "receiving"
             /\ Len(m) <= chan["A"].config.max_frame_size
             /\ IsoSendData(m, with_cb))
               => chan'["A"].tx_msg_no = chan["A"].tx_msg_no + 1
       /\ \A f \in PeerFrames :
            (/\ chan["A"].state \in {"waiting_fc", "transmitting"}
             /\ IsFirstFrame(f)
             /\ IsoRecvFrame(f))
               => /\ chan'["A"].rx_buffer # <<>>
                  /\ Len(chan'["A"].tx_queue) = Len(chan["A"].tx_queue) + 1]_vars

\* the periodic tasks that are alive for command c and that
\* stop_periodic_command has not taken out of periodic_threads
LivePeriodic(c) ==
    {t \in 1..MaxThreads \ exe.periodic_stopped :
        thr[t].kind = "periodic" /\ thr[t].cmd = c /\ IsAlive(t)}

\* C38: at most one periodic task is alive per command id, also when the
\* group passes over the periodic command more than once, and every live
\* periodic task is the one recorded in periodic_threads under its command
\* id.
C38_OnePeriodicTaskPerCommand ==
    \A c \in CommandIds :
        /\ Cardinality(LivePeriodic(c)) <= 1
        /\ \A t \in LivePeriodic(c) : <<c, t>> \in exe.periodic_threads

\* C39: no entry of the channel waits on the outbound queue: whenever
\* send_data or process_can_frame meets a full tx_queue it returns (failing
\* or dropping the frame), so no call is ever left waiting in
\* tx_queue.put, with or without the channel lock.
C39_NoCallWaitsOnFullQueue == chan["A"].putting = <<>>

\* C40: a single-shot UDS command for which send_request returned no
\* response is recorded as failed (fail_count incremented, success_count
\* kept), whether or not the command expects a response.  For a command
\* that expects none, send_request returns no response only when send_data
\* refused the request.
C40_UnsentUdsCommandFails ==
    [][(ExeUdsCommandReturn /\ req[1].result = NoResponse)
          => \A c \in CommandIds :
                UdsCommandRequest(c) = req[1].request
                   => /\ cmds'[c].fail_count = cmds[c].fail_count + 1
                      /\ cmds'[c].success_count = cmds[c].success_count]_vars

====
